---- MODULE Spec2Model ----
(***************************************************************************)
(* Package Stalker: the Track123 status normalizer (mapTrack123Status),    *)
(* the resolver (Track123Service.instantTrack), the local-storage          *)
(* repository (LocalStorageService), the aggregator (AnalyticsService)     *)
(* and the App handlers handleTrack, handleRefresh and handleDelete.       *)
(*                                                                         *)
(* Conventions.                                                            *)
(*  - An optional JavaScript value is a sequence of length 0 or 1:         *)
(*    <<>> is undefined/absent, <<x>> is the value x.                      *)
(*  - A string the code inspects character by character (a gateway status) *)
(*    is a sequence of one-character strings; every other string is a      *)
(*    TLA+ string.                                                         *)
(*  - A Date is [k |-> "date", ms |-> n] or the Invalid Date               *)
(*    [k |-> "invalid"]; its JSON form is [k |-> "iso", ms |-> n]          *)
(*    or [k |-> "null", ms |-> 0].                                         *)
(***************************************************************************)
EXTENDS Integers, Sequences, FiniteSets, TLC

VARIABLES
    now,        \* the wall clock read by new Date()
    nextId,     \* the next identifier crypto.randomUUID() hands out
    normIn,     \* argument of the mapTrack123Status call under test
    normOut,    \* its result
    rpc,        \* position of the instantTrack call
    rtn,        \* instantTrack: parameter trackingNumber
    rnick,      \* instantTrack: parameter nickname (optional)
    trackings,  \* instantTrack: local variable trackings
    calls,      \* gateway calls and waits of the current instantTrack, in order
    responses,  \* the responses the gateway gave to those calls, in order
    result,     \* how the instantTrack promise settled
    storage,    \* localStorage item 'package-stalker-trackings'
    lastOp,     \* the last repository operation, its argument and outcome
    saved,      \* analytics: the Trackings whose saves built the snapshot
    aOp,        \* the last AnalyticsService call that returned since the
                \* item was last changed: its time, snapshot and result
    tpc,        \* position of each running handleTrack
    targ,       \* handleTrack: parameter trackingNumber, per run
    isLoading,  \* App state isLoading
    error,      \* App state error
    currentPage,  \* App state currentPage
    appTrackings, \* App state trackings
    batch,      \* the handleTrack runs that overlap: what was stored when
                \* the first began, the numbers asked for, the results saved
    tref,       \* handleRefresh: local variable tracking, per run (absent
                \* for a run of handleTrack)
    pending,    \* repository and analytics calls suspended at their
                \* await of getTrackings()
    wrote,      \* the last repository call that resumed and wrote
    apiKey,     \* import.meta.env.VITE_TRACK123_API_KEY
    service     \* trackingService, as createTrackingService built it

vars == <<now, nextId, normIn, normOut, rpc, rtn, rnick, trackings, calls,
          responses, result, storage, lastOp, saved, aOp, tpc, targ,
          isLoading, error, currentPage, appTrackings, batch, tref, pending,
          wrote, apiKey, service>>

normVars == <<normIn, normOut>>
resolverVars == <<rpc, rtn, rnick, trackings, calls, responses, result>>
repoVars == <<storage, lastOp>>
statVars == <<saved, aOp>>
appVars == <<tpc, targ, isLoading, error, currentPage, appTrackings, batch,
            tref>>
asyncVars == <<pending, wrote>>
svcVars == <<apiKey, service>>

----------------------------------------------------------------------------
(* Bounds *)

MaxTime == 1
MaxId == 4
MaxContent == 2

----------------------------------------------------------------------------
(* Optional values *)

Undefined == <<>>
Some(x) == <<x>>
IsDefined(o) == Len(o) > 0
ValueOf(o) == o[1]

----------------------------------------------------------------------------
(* Strings of characters and String.prototype.toUpperCase *)

LowerChars == <<"a","b","c","d","e","f","g","h","i","j","k","l","m",
                "n","o","p","q","r","s","t","u","v","w","x","y","z">>
UpperChars == <<"A","B","C","D","E","F","G","H","I","J","K","L","M",
                "N","O","P","Q","R","S","T","U","V","W","X","Y","Z">>

IndexIn(c, chars) == CHOOSE i \in 1..Len(chars) : chars[i] = c

\* characters outside ASCII are written by their code point
DotlessI == "U+0131"
LongS == "U+017F"
SharpS == "U+00DF"

\* the characters outside a-z that have a capital of one character, each
\* with its capital (the simple upper-case mappings of the Unicode
\* character database)
SimpleUppercase ==
    <<
       <<"U+00B5","U+039C">>, <<"U+00E0","U+00C0">>, <<"U+00E1","U+00C1">>, <<"U+00E2","U+00C2">>,
       <<"U+00E3","U+00C3">>, <<"U+00E4","U+00C4">>, <<"U+00E5","U+00C5">>, <<"U+00E6","U+00C6">>,
       <<"U+00E7","U+00C7">>, <<"U+00E8","U+00C8">>, <<"U+00E9","U+00C9">>, <<"U+00EA","U+00CA">>,
       <<"U+00EB","U+00CB">>, <<"U+00EC","U+00CC">>, <<"U+00ED","U+00CD">>, <<"U+00EE","U+00CE">>,
       <<"U+00EF","U+00CF">>, <<"U+00F0","U+00D0">>, <<"U+00F1","U+00D1">>, <<"U+00F2","U+00D2">>,
       <<"U+00F3","U+00D3">>, <<"U+00F4","U+00D4">>, <<"U+00F5","U+00D5">>, <<"U+00F6","U+00D6">>,
       <<"U+00F8","U+00D8">>, <<"U+00F9","U+00D9">>, <<"U+00FA","U+00DA">>, <<"U+00FB","U+00DB">>,
       <<"U+00FC","U+00DC">>, <<"U+00FD","U+00DD">>, <<"U+00FE","U+00DE">>, <<"U+00FF","U+0178">>,
       <<"U+0101","U+0100">>, <<"U+0103","U+0102">>, <<"U+0105","U+0104">>, <<"U+0107","U+0106">>,
       <<"U+0109","U+0108">>, <<"U+010B","U+010A">>, <<"U+010D","U+010C">>, <<"U+010F","U+010E">>,
       <<"U+0111","U+0110">>, <<"U+0113","U+0112">>, <<"U+0115","U+0114">>, <<"U+0117","U+0116">>,
       <<"U+0119","U+0118">>, <<"U+011B","U+011A">>, <<"U+011D","U+011C">>, <<"U+011F","U+011E">>,
       <<"U+0121","U+0120">>, <<"U+0123","U+0122">>, <<"U+0125","U+0124">>, <<"U+0127","U+0126">>,
       <<"U+0129","U+0128">>, <<"U+012B","U+012A">>, <<"U+012D","U+012C">>, <<"U+012F","U+012E">>,
       <<"U+0131","I">>, <<"U+0133","U+0132">>, <<"U+0135","U+0134">>, <<"U+0137","U+0136">>,
       <<"U+013A","U+0139">>, <<"U+013C","U+013B">>, <<"U+013E","U+013D">>, <<"U+0140","U+013F">>,
       <<"U+0142","U+0141">>, <<"U+0144","U+0143">>, <<"U+0146","U+0145">>, <<"U+0148","U+0147">>,
       <<"U+014B","U+014A">>, <<"U+014D","U+014C">>, <<"U+014F","U+014E">>, <<"U+0151","U+0150">>,
       <<"U+0153","U+0152">>, <<"U+0155","U+0154">>, <<"U+0157","U+0156">>, <<"U+0159","U+0158">>,
       <<"U+015B","U+015A">>, <<"U+015D","U+015C">>, <<"U+015F","U+015E">>, <<"U+0161","U+0160">>,
       <<"U+0163","U+0162">>, <<"U+0165","U+0164">>, <<"U+0167","U+0166">>, <<"U+0169","U+0168">>,
       <<"U+016B","U+016A">>, <<"U+016D","U+016C">>, <<"U+016F","U+016E">>, <<"U+0171","U+0170">>,
       <<"U+0173","U+0172">>, <<"U+0175","U+0174">>, <<"U+0177","U+0176">>, <<"U+017A","U+0179">>,
       <<"U+017C","U+017B">>, <<"U+017E","U+017D">>, <<"U+017F","S">>, <<"U+0180","U+0243">>,
       <<"U+0183","U+0182">>, <<"U+0185","U+0184">>, <<"U+0188","U+0187">>, <<"U+018C","U+018B">>,
       <<"U+0192","U+0191">>, <<"U+0195","U+01F6">>, <<"U+0199","U+0198">>, <<"U+019A","U+023D">>,
       <<"U+019B","U+A7DC">>, <<"U+019E","U+0220">>, <<"U+01A1","U+01A0">>, <<"U+01A3","U+01A2">>,
       <<"U+01A5","U+01A4">>, <<"U+01A8","U+01A7">>, <<"U+01AD","U+01AC">>, <<"U+01B0","U+01AF">>,
       <<"U+01B4","U+01B3">>, <<"U+01B6","U+01B5">>, <<"U+01B9","U+01B8">>, <<"U+01BD","U+01BC">>,
       <<"U+01BF","U+01F7">>, <<"U+01C5","U+01C4">>, <<"U+01C6","U+01C4">>, <<"U+01C8","U+01C7">>,
       <<"U+01C9","U+01C7">>, <<"U+01CB","U+01CA">>, <<"U+01CC","U+01CA">>, <<"U+01CE","U+01CD">>,
       <<"U+01D0","U+01CF">>, <<"U+01D2","U+01D1">>, <<"U+01D4","U+01D3">>, <<"U+01D6","U+01D5">>,
       <<"U+01D8","U+01D7">>, <<"U+01DA","U+01D9">>, <<"U+01DC","U+01DB">>, <<"U+01DD","U+018E">>,
       <<"U+01DF","U+01DE">>, <<"U+01E1","U+01E0">>, <<"U+01E3","U+01E2">>, <<"U+01E5","U+01E4">>,
       <<"U+01E7","U+01E6">>, <<"U+01E9","U+01E8">>, <<"U+01EB","U+01EA">>, <<"U+01ED","U+01EC">>,
       <<"U+01EF","U+01EE">>, <<"U+01F2","U+01F1">>, <<"U+01F3","U+01F1">>, <<"U+01F5","U+01F4">>,
       <<"U+01F9","U+01F8">>, <<"U+01FB","U+01FA">>, <<"U+01FD","U+01FC">>, <<"U+01FF","U+01FE">>,
       <<"U+0201","U+0200">>, <<"U+0203","U+0202">>, <<"U+0205","U+0204">>, <<"U+0207","U+0206">>,
       <<"U+0209","U+0208">>, <<"U+020B","U+020A">>, <<"U+020D","U+020C">>, <<"U+020F","U+020E">>,
       <<"U+0211","U+0210">>, <<"U+0213","U+0212">>, <<"U+0215","U+0214">>, <<"U+0217","U+0216">>,
       <<"U+0219","U+0218">>, <<"U+021B","U+021A">>, <<"U+021D","U+021C">>, <<"U+021F","U+021E">>,
       <<"U+0223","U+0222">>, <<"U+0225","U+0224">>, <<"U+0227","U+0226">>, <<"U+0229","U+0228">>,
       <<"U+022B","U+022A">>, <<"U+022D","U+022C">>, <<"U+022F","U+022E">>, <<"U+0231","U+0230">>,
       <<"U+0233","U+0232">>, <<"U+023C","U+023B">>, <<"U+023F","U+2C7E">>, <<"U+0240","U+2C7F">>,
       <<"U+0242","U+0241">>, <<"U+0247","U+0246">>, <<"U+0249","U+0248">>, <<"U+024B","U+024A">>,
       <<"U+024D","U+024C">>, <<"U+024F","U+024E">>, <<"U+0250","U+2C6F">>, <<"U+0251","U+2C6D">>,
       <<"U+0252","U+2C70">>, <<"U+0253","U+0181">>, <<"U+0254","U+0186">>, <<"U+0256","U+0189">>,
       <<"U+0257","U+018A">>, <<"U+0259","U+018F">>, <<"U+025B","U+0190">>, <<"U+025C","U+A7AB">>,
       <<"U+0260","U+0193">>, <<"U+0261","U+A7AC">>, <<"U+0263","U+0194">>, <<"U+0264","U+A7CB">>,
       <<"U+0265","U+A78D">>, <<"U+0266","U+A7AA">>, <<"U+0268","U+0197">>, <<"U+0269","U+0196">>,
       <<"U+026A","U+A7AE">>, <<"U+026B","U+2C62">>, <<"U+026C","U+A7AD">>, <<"U+026F","U+019C">>,
       <<"U+0271","U+2C6E">>, <<"U+0272","U+019D">>, <<"U+0275","U+019F">>, <<"U+027D","U+2C64">>,
       <<"U+0280","U+01A6">>, <<"U+0282","U+A7C5">>, <<"U+0283","U+01A9">>, <<"U+0287","U+A7B1">>,
       <<"U+0288","U+01AE">>, <<"U+0289","U+0244">>, <<"U+028A","U+01B1">>, <<"U+028B","U+01B2">>,
       <<"U+028C","U+0245">>, <<"U+0292","U+01B7">>, <<"U+029D","U+A7B2">>, <<"U+029E","U+A7B0">>,
       <<"U+0345","U+0399">>, <<"U+0371","U+0370">>, <<"U+0373","U+0372">>, <<"U+0377","U+0376">>,
       <<"U+037B","U+03FD">>, <<"U+037C","U+03FE">>, <<"U+037D","U+03FF">>, <<"U+03AC","U+0386">>,
       <<"U+03AD","U+0388">>, <<"U+03AE","U+0389">>, <<"U+03AF","U+038A">>, <<"U+03B1","U+0391">>,
       <<"U+03B2","U+0392">>, <<"U+03B3","U+0393">>, <<"U+03B4","U+0394">>, <<"U+03B5","U+0395">>,
       <<"U+03B6","U+0396">>, <<"U+03B7","U+0397">>, <<"U+03B8","U+0398">>, <<"U+03B9","U+0399">>,
       <<"U+03BA","U+039A">>, <<"U+03BB","U+039B">>, <<"U+03BC","U+039C">>, <<"U+03BD","U+039D">>,
       <<"U+03BE","U+039E">>, <<"U+03BF","U+039F">>, <<"U+03C0","U+03A0">>, <<"U+03C1","U+03A1">>,
       <<"U+03C2","U+03A3">>, <<"U+03C3","U+03A3">>, <<"U+03C4","U+03A4">>, <<"U+03C5","U+03A5">>,
       <<"U+03C6","U+03A6">>, <<"U+03C7","U+03A7">>, <<"U+03C8","U+03A8">>, <<"U+03C9","U+03A9">>,
       <<"U+03CA","U+03AA">>, <<"U+03CB","U+03AB">>, <<"U+03CC","U+038C">>, <<"U+03CD","U+038E">>,
       <<"U+03CE","U+038F">>, <<"U+03D0","U+0392">>, <<"U+03D1","U+0398">>, <<"U+03D5","U+03A6">>,
       <<"U+03D6","U+03A0">>, <<"U+03D7","U+03CF">>, <<"U+03D9","U+03D8">>, <<"U+03DB","U+03DA">>,
       <<"U+03DD","U+03DC">>, <<"U+03DF","U+03DE">>, <<"U+03E1","U+03E0">>, <<"U+03E3","U+03E2">>,
       <<"U+03E5","U+03E4">>, <<"U+03E7","U+03E6">>, <<"U+03E9","U+03E8">>, <<"U+03EB","U+03EA">>,
       <<"U+03ED","U+03EC">>, <<"U+03EF","U+03EE">>, <<"U+03F0","U+039A">>, <<"U+03F1","U+03A1">>,
       <<"U+03F2","U+03F9">>, <<"U+03F3","U+037F">>, <<"U+03F5","U+0395">>, <<"U+03F8","U+03F7">>,
       <<"U+03FB","U+03FA">>, <<"U+0430","U+0410">>, <<"U+0431","U+0411">>, <<"U+0432","U+0412">>,
       <<"U+0433","U+0413">>, <<"U+0434","U+0414">>, <<"U+0435","U+0415">>, <<"U+0436","U+0416">>,
       <<"U+0437","U+0417">>, <<"U+0438","U+0418">>, <<"U+0439","U+0419">>, <<"U+043A","U+041A">>,
       <<"U+043B","U+041B">>, <<"U+043C","U+041C">>, <<"U+043D","U+041D">>, <<"U+043E","U+041E">>,
       <<"U+043F","U+041F">>, <<"U+0440","U+0420">>, <<"U+0441","U+0421">>, <<"U+0442","U+0422">>,
       <<"U+0443","U+0423">>, <<"U+0444","U+0424">>, <<"U+0445","U+0425">>, <<"U+0446","U+0426">>,
       <<"U+0447","U+0427">>, <<"U+0448","U+0428">>, <<"U+0449","U+0429">>, <<"U+044A","U+042A">>,
       <<"U+044B","U+042B">>, <<"U+044C","U+042C">>, <<"U+044D","U+042D">>, <<"U+044E","U+042E">>,
       <<"U+044F","U+042F">>, <<"U+0450","U+0400">>, <<"U+0451","U+0401">>, <<"U+0452","U+0402">>,
       <<"U+0453","U+0403">>, <<"U+0454","U+0404">>, <<"U+0455","U+0405">>, <<"U+0456","U+0406">>,
       <<"U+0457","U+0407">>, <<"U+0458","U+0408">>, <<"U+0459","U+0409">>, <<"U+045A","U+040A">>,
       <<"U+045B","U+040B">>, <<"U+045C","U+040C">>, <<"U+045D","U+040D">>, <<"U+045E","U+040E">>,
       <<"U+045F","U+040F">>, <<"U+0461","U+0460">>, <<"U+0463","U+0462">>, <<"U+0465","U+0464">>,
       <<"U+0467","U+0466">>, <<"U+0469","U+0468">>, <<"U+046B","U+046A">>, <<"U+046D","U+046C">>,
       <<"U+046F","U+046E">>, <<"U+0471","U+0470">>, <<"U+0473","U+0472">>, <<"U+0475","U+0474">>,
       <<"U+0477","U+0476">>, <<"U+0479","U+0478">>, <<"U+047B","U+047A">>, <<"U+047D","U+047C">>,
       <<"U+047F","U+047E">>, <<"U+0481","U+0480">>, <<"U+048B","U+048A">>, <<"U+048D","U+048C">>,
       <<"U+048F","U+048E">>, <<"U+0491","U+0490">>, <<"U+0493","U+0492">>, <<"U+0495","U+0494">>,
       <<"U+0497","U+0496">>, <<"U+0499","U+0498">>, <<"U+049B","U+049A">>, <<"U+049D","U+049C">>,
       <<"U+049F","U+049E">>, <<"U+04A1","U+04A0">>, <<"U+04A3","U+04A2">>, <<"U+04A5","U+04A4">>,
       <<"U+04A7","U+04A6">>, <<"U+04A9","U+04A8">>, <<"U+04AB","U+04AA">>, <<"U+04AD","U+04AC">>,
       <<"U+04AF","U+04AE">>, <<"U+04B1","U+04B0">>, <<"U+04B3","U+04B2">>, <<"U+04B5","U+04B4">>,
       <<"U+04B7","U+04B6">>, <<"U+04B9","U+04B8">>, <<"U+04BB","U+04BA">>, <<"U+04BD","U+04BC">>,
       <<"U+04BF","U+04BE">>, <<"U+04C2","U+04C1">>, <<"U+04C4","U+04C3">>, <<"U+04C6","U+04C5">>,
       <<"U+04C8","U+04C7">>, <<"U+04CA","U+04C9">>, <<"U+04CC","U+04CB">>, <<"U+04CE","U+04CD">>,
       <<"U+04CF","U+04C0">>, <<"U+04D1","U+04D0">>, <<"U+04D3","U+04D2">>, <<"U+04D5","U+04D4">>,
       <<"U+04D7","U+04D6">>, <<"U+04D9","U+04D8">>, <<"U+04DB","U+04DA">>, <<"U+04DD","U+04DC">>,
       <<"U+04DF","U+04DE">>, <<"U+04E1","U+04E0">>, <<"U+04E3","U+04E2">>, <<"U+04E5","U+04E4">>,
       <<"U+04E7","U+04E6">>, <<"U+04E9","U+04E8">>, <<"U+04EB","U+04EA">>, <<"U+04ED","U+04EC">>,
       <<"U+04EF","U+04EE">>, <<"U+04F1","U+04F0">>, <<"U+04F3","U+04F2">>, <<"U+04F5","U+04F4">>,
       <<"U+04F7","U+04F6">>, <<"U+04F9","U+04F8">>, <<"U+04FB","U+04FA">>, <<"U+04FD","U+04FC">>,
       <<"U+04FF","U+04FE">>, <<"U+0501","U+0500">>, <<"U+0503","U+0502">>, <<"U+0505","U+0504">>,
       <<"U+0507","U+0506">>, <<"U+0509","U+0508">>, <<"U+050B","U+050A">>, <<"U+050D","U+050C">>,
       <<"U+050F","U+050E">>, <<"U+0511","U+0510">>, <<"U+0513","U+0512">>, <<"U+0515","U+0514">>,
       <<"U+0517","U+0516">>, <<"U+0519","U+0518">>, <<"U+051B","U+051A">>, <<"U+051D","U+051C">>,
       <<"U+051F","U+051E">>, <<"U+0521","U+0520">>, <<"U+0523","U+0522">>, <<"U+0525","U+0524">>,
       <<"U+0527","U+0526">>, <<"U+0529","U+0528">>, <<"U+052B","U+052A">>, <<"U+052D","U+052C">>,
       <<"U+052F","U+052E">>, <<"U+0561","U+0531">>, <<"U+0562","U+0532">>, <<"U+0563","U+0533">>,
       <<"U+0564","U+0534">>, <<"U+0565","U+0535">>, <<"U+0566","U+0536">>, <<"U+0567","U+0537">>,
       <<"U+0568","U+0538">>, <<"U+0569","U+0539">>, <<"U+056A","U+053A">>, <<"U+056B","U+053B">>,
       <<"U+056C","U+053C">>, <<"U+056D","U+053D">>, <<"U+056E","U+053E">>, <<"U+056F","U+053F">>,
       <<"U+0570","U+0540">>, <<"U+0571","U+0541">>, <<"U+0572","U+0542">>, <<"U+0573","U+0543">>,
       <<"U+0574","U+0544">>, <<"U+0575","U+0545">>, <<"U+0576","U+0546">>, <<"U+0577","U+0547">>,
       <<"U+0578","U+0548">>, <<"U+0579","U+0549">>, <<"U+057A","U+054A">>, <<"U+057B","U+054B">>,
       <<"U+057C","U+054C">>, <<"U+057D","U+054D">>, <<"U+057E","U+054E">>, <<"U+057F","U+054F">>,
       <<"U+0580","U+0550">>, <<"U+0581","U+0551">>, <<"U+0582","U+0552">>, <<"U+0583","U+0553">>,
       <<"U+0584","U+0554">>, <<"U+0585","U+0555">>, <<"U+0586","U+0556">>, <<"U+10D0","U+1C90">>,
       <<"U+10D1","U+1C91">>, <<"U+10D2","U+1C92">>, <<"U+10D3","U+1C93">>, <<"U+10D4","U+1C94">>,
       <<"U+10D5","U+1C95">>, <<"U+10D6","U+1C96">>, <<"U+10D7","U+1C97">>, <<"U+10D8","U+1C98">>,
       <<"U+10D9","U+1C99">>, <<"U+10DA","U+1C9A">>, <<"U+10DB","U+1C9B">>, <<"U+10DC","U+1C9C">>,
       <<"U+10DD","U+1C9D">>, <<"U+10DE","U+1C9E">>, <<"U+10DF","U+1C9F">>, <<"U+10E0","U+1CA0">>,
       <<"U+10E1","U+1CA1">>, <<"U+10E2","U+1CA2">>, <<"U+10E3","U+1CA3">>, <<"U+10E4","U+1CA4">>,
       <<"U+10E5","U+1CA5">>, <<"U+10E6","U+1CA6">>, <<"U+10E7","U+1CA7">>, <<"U+10E8","U+1CA8">>,
       <<"U+10E9","U+1CA9">>, <<"U+10EA","U+1CAA">>, <<"U+10EB","U+1CAB">>, <<"U+10EC","U+1CAC">>,
       <<"U+10ED","U+1CAD">>, <<"U+10EE","U+1CAE">>, <<"U+10EF","U+1CAF">>, <<"U+10F0","U+1CB0">>,
       <<"U+10F1","U+1CB1">>, <<"U+10F2","U+1CB2">>, <<"U+10F3","U+1CB3">>, <<"U+10F4","U+1CB4">>,
       <<"U+10F5","U+1CB5">>, <<"U+10F6","U+1CB6">>, <<"U+10F7","U+1CB7">>, <<"U+10F8","U+1CB8">>,
       <<"U+10F9","U+1CB9">>, <<"U+10FA","U+1CBA">>, <<"U+10FD","U+1CBD">>, <<"U+10FE","U+1CBE">>,
       <<"U+10FF","U+1CBF">>, <<"U+13F8","U+13F0">>, <<"U+13F9","U+13F1">>, <<"U+13FA","U+13F2">>,
       <<"U+13FB","U+13F3">>, <<"U+13FC","U+13F4">>, <<"U+13FD","U+13F5">>, <<"U+1C80","U+0412">>,
       <<"U+1C81","U+0414">>, <<"U+1C82","U+041E">>, <<"U+1C83","U+0421">>, <<"U+1C84","U+0422">>,
       <<"U+1C85","U+0422">>, <<"U+1C86","U+042A">>, <<"U+1C87","U+0462">>, <<"U+1C88","U+A64A">>,
       <<"U+1C8A","U+1C89">>, <<"U+1D79","U+A77D">>, <<"U+1D7D","U+2C63">>, <<"U+1D8E","U+A7C6">>,
       <<"U+1E01","U+1E00">>, <<"U+1E03","U+1E02">>, <<"U+1E05","U+1E04">>, <<"U+1E07","U+1E06">>,
       <<"U+1E09","U+1E08">>, <<"U+1E0B","U+1E0A">>, <<"U+1E0D","U+1E0C">>, <<"U+1E0F","U+1E0E">>,
       <<"U+1E11","U+1E10">>, <<"U+1E13","U+1E12">>, <<"U+1E15","U+1E14">>, <<"U+1E17","U+1E16">>,
       <<"U+1E19","U+1E18">>, <<"U+1E1B","U+1E1A">>, <<"U+1E1D","U+1E1C">>, <<"U+1E1F","U+1E1E">>,
       <<"U+1E21","U+1E20">>, <<"U+1E23","U+1E22">>, <<"U+1E25","U+1E24">>, <<"U+1E27","U+1E26">>,
       <<"U+1E29","U+1E28">>, <<"U+1E2B","U+1E2A">>, <<"U+1E2D","U+1E2C">>, <<"U+1E2F","U+1E2E">>,
       <<"U+1E31","U+1E30">>, <<"U+1E33","U+1E32">>, <<"U+1E35","U+1E34">>, <<"U+1E37","U+1E36">>,
       <<"U+1E39","U+1E38">>, <<"U+1E3B","U+1E3A">>, <<"U+1E3D","U+1E3C">>, <<"U+1E3F","U+1E3E">>,
       <<"U+1E41","U+1E40">>, <<"U+1E43","U+1E42">>, <<"U+1E45","U+1E44">>, <<"U+1E47","U+1E46">>,
       <<"U+1E49","U+1E48">>, <<"U+1E4B","U+1E4A">>, <<"U+1E4D","U+1E4C">>, <<"U+1E4F","U+1E4E">>,
       <<"U+1E51","U+1E50">>, <<"U+1E53","U+1E52">>, <<"U+1E55","U+1E54">>, <<"U+1E57","U+1E56">>,
       <<"U+1E59","U+1E58">>, <<"U+1E5B","U+1E5A">>, <<"U+1E5D","U+1E5C">>, <<"U+1E5F","U+1E5E">>,
       <<"U+1E61","U+1E60">>, <<"U+1E63","U+1E62">>, <<"U+1E65","U+1E64">>, <<"U+1E67","U+1E66">>,
       <<"U+1E69","U+1E68">>, <<"U+1E6B","U+1E6A">>, <<"U+1E6D","U+1E6C">>, <<"U+1E6F","U+1E6E">>,
       <<"U+1E71","U+1E70">>, <<"U+1E73","U+1E72">>, <<"U+1E75","U+1E74">>, <<"U+1E77","U+1E76">>,
       <<"U+1E79","U+1E78">>, <<"U+1E7B","U+1E7A">>, <<"U+1E7D","U+1E7C">>, <<"U+1E7F","U+1E7E">>,
       <<"U+1E81","U+1E80">>, <<"U+1E83","U+1E82">>, <<"U+1E85","U+1E84">>, <<"U+1E87","U+1E86">>,
       <<"U+1E89","U+1E88">>, <<"U+1E8B","U+1E8A">>, <<"U+1E8D","U+1E8C">>, <<"U+1E8F","U+1E8E">>,
       <<"U+1E91","U+1E90">>, <<"U+1E93","U+1E92">>, <<"U+1E95","U+1E94">>, <<"U+1E9B","U+1E60">>,
       <<"U+1EA1","U+1EA0">>, <<"U+1EA3","U+1EA2">>, <<"U+1EA5","U+1EA4">>, <<"U+1EA7","U+1EA6">>,
       <<"U+1EA9","U+1EA8">>, <<"U+1EAB","U+1EAA">>, <<"U+1EAD","U+1EAC">>, <<"U+1EAF","U+1EAE">>,
       <<"U+1EB1","U+1EB0">>, <<"U+1EB3","U+1EB2">>, <<"U+1EB5","U+1EB4">>, <<"U+1EB7","U+1EB6">>,
       <<"U+1EB9","U+1EB8">>, <<"U+1EBB","U+1EBA">>, <<"U+1EBD","U+1EBC">>, <<"U+1EBF","U+1EBE">>,
       <<"U+1EC1","U+1EC0">>, <<"U+1EC3","U+1EC2">>, <<"U+1EC5","U+1EC4">>, <<"U+1EC7","U+1EC6">>,
       <<"U+1EC9","U+1EC8">>, <<"U+1ECB","U+1ECA">>, <<"U+1ECD","U+1ECC">>, <<"U+1ECF","U+1ECE">>,
       <<"U+1ED1","U+1ED0">>, <<"U+1ED3","U+1ED2">>, <<"U+1ED5","U+1ED4">>, <<"U+1ED7","U+1ED6">>,
       <<"U+1ED9","U+1ED8">>, <<"U+1EDB","U+1EDA">>, <<"U+1EDD","U+1EDC">>, <<"U+1EDF","U+1EDE">>,
       <<"U+1EE1","U+1EE0">>, <<"U+1EE3","U+1EE2">>, <<"U+1EE5","U+1EE4">>, <<"U+1EE7","U+1EE6">>,
       <<"U+1EE9","U+1EE8">>, <<"U+1EEB","U+1EEA">>, <<"U+1EED","U+1EEC">>, <<"U+1EEF","U+1EEE">>,
       <<"U+1EF1","U+1EF0">>, <<"U+1EF3","U+1EF2">>, <<"U+1EF5","U+1EF4">>, <<"U+1EF7","U+1EF6">>,
       <<"U+1EF9","U+1EF8">>, <<"U+1EFB","U+1EFA">>, <<"U+1EFD","U+1EFC">>, <<"U+1EFF","U+1EFE">>,
       <<"U+1F00","U+1F08">>, <<"U+1F01","U+1F09">>, <<"U+1F02","U+1F0A">>, <<"U+1F03","U+1F0B">>,
       <<"U+1F04","U+1F0C">>, <<"U+1F05","U+1F0D">>, <<"U+1F06","U+1F0E">>, <<"U+1F07","U+1F0F">>,
       <<"U+1F10","U+1F18">>, <<"U+1F11","U+1F19">>, <<"U+1F12","U+1F1A">>, <<"U+1F13","U+1F1B">>,
       <<"U+1F14","U+1F1C">>, <<"U+1F15","U+1F1D">>, <<"U+1F20","U+1F28">>, <<"U+1F21","U+1F29">>,
       <<"U+1F22","U+1F2A">>, <<"U+1F23","U+1F2B">>, <<"U+1F24","U+1F2C">>, <<"U+1F25","U+1F2D">>,
       <<"U+1F26","U+1F2E">>, <<"U+1F27","U+1F2F">>, <<"U+1F30","U+1F38">>, <<"U+1F31","U+1F39">>,
       <<"U+1F32","U+1F3A">>, <<"U+1F33","U+1F3B">>, <<"U+1F34","U+1F3C">>, <<"U+1F35","U+1F3D">>,
       <<"U+1F36","U+1F3E">>, <<"U+1F37","U+1F3F">>, <<"U+1F40","U+1F48">>, <<"U+1F41","U+1F49">>,
       <<"U+1F42","U+1F4A">>, <<"U+1F43","U+1F4B">>, <<"U+1F44","U+1F4C">>, <<"U+1F45","U+1F4D">>,
       <<"U+1F51","U+1F59">>, <<"U+1F53","U+1F5B">>, <<"U+1F55","U+1F5D">>, <<"U+1F57","U+1F5F">>,
       <<"U+1F60","U+1F68">>, <<"U+1F61","U+1F69">>, <<"U+1F62","U+1F6A">>, <<"U+1F63","U+1F6B">>,
       <<"U+1F64","U+1F6C">>, <<"U+1F65","U+1F6D">>, <<"U+1F66","U+1F6E">>, <<"U+1F67","U+1F6F">>,
       <<"U+1F70","U+1FBA">>, <<"U+1F71","U+1FBB">>, <<"U+1F72","U+1FC8">>, <<"U+1F73","U+1FC9">>,
       <<"U+1F74","U+1FCA">>, <<"U+1F75","U+1FCB">>, <<"U+1F76","U+1FDA">>, <<"U+1F77","U+1FDB">>,
       <<"U+1F78","U+1FF8">>, <<"U+1F79","U+1FF9">>, <<"U+1F7A","U+1FEA">>, <<"U+1F7B","U+1FEB">>,
       <<"U+1F7C","U+1FFA">>, <<"U+1F7D","U+1FFB">>, <<"U+1FB0","U+1FB8">>, <<"U+1FB1","U+1FB9">>,
       <<"U+1FBE","U+0399">>, <<"U+1FD0","U+1FD8">>, <<"U+1FD1","U+1FD9">>, <<"U+1FE0","U+1FE8">>,
       <<"U+1FE1","U+1FE9">>, <<"U+1FE5","U+1FEC">>, <<"U+214E","U+2132">>, <<"U+2170","U+2160">>,
       <<"U+2171","U+2161">>, <<"U+2172","U+2162">>, <<"U+2173","U+2163">>, <<"U+2174","U+2164">>,
       <<"U+2175","U+2165">>, <<"U+2176","U+2166">>, <<"U+2177","U+2167">>, <<"U+2178","U+2168">>,
       <<"U+2179","U+2169">>, <<"U+217A","U+216A">>, <<"U+217B","U+216B">>, <<"U+217C","U+216C">>,
       <<"U+217D","U+216D">>, <<"U+217E","U+216E">>, <<"U+217F","U+216F">>, <<"U+2184","U+2183">>,
       <<"U+24D0","U+24B6">>, <<"U+24D1","U+24B7">>, <<"U+24D2","U+24B8">>, <<"U+24D3","U+24B9">>,
       <<"U+24D4","U+24BA">>, <<"U+24D5","U+24BB">>, <<"U+24D6","U+24BC">>, <<"U+24D7","U+24BD">>,
       <<"U+24D8","U+24BE">>, <<"U+24D9","U+24BF">>, <<"U+24DA","U+24C0">>, <<"U+24DB","U+24C1">>,
       <<"U+24DC","U+24C2">>, <<"U+24DD","U+24C3">>, <<"U+24DE","U+24C4">>, <<"U+24DF","U+24C5">>,
       <<"U+24E0","U+24C6">>, <<"U+24E1","U+24C7">>, <<"U+24E2","U+24C8">>, <<"U+24E3","U+24C9">>,
       <<"U+24E4","U+24CA">>, <<"U+24E5","U+24CB">>, <<"U+24E6","U+24CC">>, <<"U+24E7","U+24CD">>,
       <<"U+24E8","U+24CE">>, <<"U+24E9","U+24CF">>, <<"U+2C30","U+2C00">>, <<"U+2C31","U+2C01">>,
       <<"U+2C32","U+2C02">>, <<"U+2C33","U+2C03">>, <<"U+2C34","U+2C04">>, <<"U+2C35","U+2C05">>,
       <<"U+2C36","U+2C06">>, <<"U+2C37","U+2C07">>, <<"U+2C38","U+2C08">>, <<"U+2C39","U+2C09">>,
       <<"U+2C3A","U+2C0A">>, <<"U+2C3B","U+2C0B">>, <<"U+2C3C","U+2C0C">>, <<"U+2C3D","U+2C0D">>,
       <<"U+2C3E","U+2C0E">>, <<"U+2C3F","U+2C0F">>, <<"U+2C40","U+2C10">>, <<"U+2C41","U+2C11">>,
       <<"U+2C42","U+2C12">>, <<"U+2C43","U+2C13">>, <<"U+2C44","U+2C14">>, <<"U+2C45","U+2C15">>,
       <<"U+2C46","U+2C16">>, <<"U+2C47","U+2C17">>, <<"U+2C48","U+2C18">>, <<"U+2C49","U+2C19">>,
       <<"U+2C4A","U+2C1A">>, <<"U+2C4B","U+2C1B">>, <<"U+2C4C","U+2C1C">>, <<"U+2C4D","U+2C1D">>,
       <<"U+2C4E","U+2C1E">>, <<"U+2C4F","U+2C1F">>, <<"U+2C50","U+2C20">>, <<"U+2C51","U+2C21">>,
       <<"U+2C52","U+2C22">>, <<"U+2C53","U+2C23">>, <<"U+2C54","U+2C24">>, <<"U+2C55","U+2C25">>,
       <<"U+2C56","U+2C26">>, <<"U+2C57","U+2C27">>, <<"U+2C58","U+2C28">>, <<"U+2C59","U+2C29">>,
       <<"U+2C5A","U+2C2A">>, <<"U+2C5B","U+2C2B">>, <<"U+2C5C","U+2C2C">>, <<"U+2C5D","U+2C2D">>,
       <<"U+2C5E","U+2C2E">>, <<"U+2C5F","U+2C2F">>, <<"U+2C61","U+2C60">>, <<"U+2C65","U+023A">>,
       <<"U+2C66","U+023E">>, <<"U+2C68","U+2C67">>, <<"U+2C6A","U+2C69">>, <<"U+2C6C","U+2C6B">>,
       <<"U+2C73","U+2C72">>, <<"U+2C76","U+2C75">>, <<"U+2C81","U+2C80">>, <<"U+2C83","U+2C82">>,
       <<"U+2C85","U+2C84">>, <<"U+2C87","U+2C86">>, <<"U+2C89","U+2C88">>, <<"U+2C8B","U+2C8A">>,
       <<"U+2C8D","U+2C8C">>, <<"U+2C8F","U+2C8E">>, <<"U+2C91","U+2C90">>, <<"U+2C93","U+2C92">>,
       <<"U+2C95","U+2C94">>, <<"U+2C97","U+2C96">>, <<"U+2C99","U+2C98">>, <<"U+2C9B","U+2C9A">>,
       <<"U+2C9D","U+2C9C">>, <<"U+2C9F","U+2C9E">>, <<"U+2CA1","U+2CA0">>, <<"U+2CA3","U+2CA2">>,
       <<"U+2CA5","U+2CA4">>, <<"U+2CA7","U+2CA6">>, <<"U+2CA9","U+2CA8">>, <<"U+2CAB","U+2CAA">>,
       <<"U+2CAD","U+2CAC">>, <<"U+2CAF","U+2CAE">>, <<"U+2CB1","U+2CB0">>, <<"U+2CB3","U+2CB2">>,
       <<"U+2CB5","U+2CB4">>, <<"U+2CB7","U+2CB6">>, <<"U+2CB9","U+2CB8">>, <<"U+2CBB","U+2CBA">>,
       <<"U+2CBD","U+2CBC">>, <<"U+2CBF","U+2CBE">>, <<"U+2CC1","U+2CC0">>, <<"U+2CC3","U+2CC2">>,
       <<"U+2CC5","U+2CC4">>, <<"U+2CC7","U+2CC6">>, <<"U+2CC9","U+2CC8">>, <<"U+2CCB","U+2CCA">>,
       <<"U+2CCD","U+2CCC">>, <<"U+2CCF","U+2CCE">>, <<"U+2CD1","U+2CD0">>, <<"U+2CD3","U+2CD2">>,
       <<"U+2CD5","U+2CD4">>, <<"U+2CD7","U+2CD6">>, <<"U+2CD9","U+2CD8">>, <<"U+2CDB","U+2CDA">>,
       <<"U+2CDD","U+2CDC">>, <<"U+2CDF","U+2CDE">>, <<"U+2CE1","U+2CE0">>, <<"U+2CE3","U+2CE2">>,
       <<"U+2CEC","U+2CEB">>, <<"U+2CEE","U+2CED">>, <<"U+2CF3","U+2CF2">>, <<"U+2D00","U+10A0">>,
       <<"U+2D01","U+10A1">>, <<"U+2D02","U+10A2">>, <<"U+2D03","U+10A3">>, <<"U+2D04","U+10A4">>,
       <<"U+2D05","U+10A5">>, <<"U+2D06","U+10A6">>, <<"U+2D07","U+10A7">>, <<"U+2D08","U+10A8">>,
       <<"U+2D09","U+10A9">>, <<"U+2D0A","U+10AA">>, <<"U+2D0B","U+10AB">>, <<"U+2D0C","U+10AC">>,
       <<"U+2D0D","U+10AD">>, <<"U+2D0E","U+10AE">>, <<"U+2D0F","U+10AF">>, <<"U+2D10","U+10B0">>,
       <<"U+2D11","U+10B1">>, <<"U+2D12","U+10B2">>, <<"U+2D13","U+10B3">>, <<"U+2D14","U+10B4">>,
       <<"U+2D15","U+10B5">>, <<"U+2D16","U+10B6">>, <<"U+2D17","U+10B7">>, <<"U+2D18","U+10B8">>,
       <<"U+2D19","U+10B9">>, <<"U+2D1A","U+10BA">>, <<"U+2D1B","U+10BB">>, <<"U+2D1C","U+10BC">>,
       <<"U+2D1D","U+10BD">>, <<"U+2D1E","U+10BE">>, <<"U+2D1F","U+10BF">>, <<"U+2D20","U+10C0">>,
       <<"U+2D21","U+10C1">>, <<"U+2D22","U+10C2">>, <<"U+2D23","U+10C3">>, <<"U+2D24","U+10C4">>,
       <<"U+2D25","U+10C5">>, <<"U+2D27","U+10C7">>, <<"U+2D2D","U+10CD">>, <<"U+A641","U+A640">>,
       <<"U+A643","U+A642">>, <<"U+A645","U+A644">>, <<"U+A647","U+A646">>, <<"U+A649","U+A648">>,
       <<"U+A64B","U+A64A">>, <<"U+A64D","U+A64C">>, <<"U+A64F","U+A64E">>, <<"U+A651","U+A650">>,
       <<"U+A653","U+A652">>, <<"U+A655","U+A654">>, <<"U+A657","U+A656">>, <<"U+A659","U+A658">>,
       <<"U+A65B","U+A65A">>, <<"U+A65D","U+A65C">>, <<"U+A65F","U+A65E">>, <<"U+A661","U+A660">>,
       <<"U+A663","U+A662">>, <<"U+A665","U+A664">>, <<"U+A667","U+A666">>, <<"U+A669","U+A668">>,
       <<"U+A66B","U+A66A">>, <<"U+A66D","U+A66C">>, <<"U+A681","U+A680">>, <<"U+A683","U+A682">>,
       <<"U+A685","U+A684">>, <<"U+A687","U+A686">>, <<"U+A689","U+A688">>, <<"U+A68B","U+A68A">>,
       <<"U+A68D","U+A68C">>, <<"U+A68F","U+A68E">>, <<"U+A691","U+A690">>, <<"U+A693","U+A692">>,
       <<"U+A695","U+A694">>, <<"U+A697","U+A696">>, <<"U+A699","U+A698">>, <<"U+A69B","U+A69A">>,
       <<"U+A723","U+A722">>, <<"U+A725","U+A724">>, <<"U+A727","U+A726">>, <<"U+A729","U+A728">>,
       <<"U+A72B","U+A72A">>, <<"U+A72D","U+A72C">>, <<"U+A72F","U+A72E">>, <<"U+A733","U+A732">>,
       <<"U+A735","U+A734">>, <<"U+A737","U+A736">>, <<"U+A739","U+A738">>, <<"U+A73B","U+A73A">>,
       <<"U+A73D","U+A73C">>, <<"U+A73F","U+A73E">>, <<"U+A741","U+A740">>, <<"U+A743","U+A742">>,
       <<"U+A745","U+A744">>, <<"U+A747","U+A746">>, <<"U+A749","U+A748">>, <<"U+A74B","U+A74A">>,
       <<"U+A74D","U+A74C">>, <<"U+A74F","U+A74E">>, <<"U+A751","U+A750">>, <<"U+A753","U+A752">>,
       <<"U+A755","U+A754">>, <<"U+A757","U+A756">>, <<"U+A759","U+A758">>, <<"U+A75B","U+A75A">>,
       <<"U+A75D","U+A75C">>, <<"U+A75F","U+A75E">>, <<"U+A761","U+A760">>, <<"U+A763","U+A762">>,
       <<"U+A765","U+A764">>, <<"U+A767","U+A766">>, <<"U+A769","U+A768">>, <<"U+A76B","U+A76A">>,
       <<"U+A76D","U+A76C">>, <<"U+A76F","U+A76E">>, <<"U+A77A","U+A779">>, <<"U+A77C","U+A77B">>,
       <<"U+A77F","U+A77E">>, <<"U+A781","U+A780">>, <<"U+A783","U+A782">>, <<"U+A785","U+A784">>,
       <<"U+A787","U+A786">>, <<"U+A78C","U+A78B">>, <<"U+A791","U+A790">>, <<"U+A793","U+A792">>,
       <<"U+A794","U+A7C4">>, <<"U+A797","U+A796">>, <<"U+A799","U+A798">>, <<"U+A79B","U+A79A">>,
       <<"U+A79D","U+A79C">>, <<"U+A79F","U+A79E">>, <<"U+A7A1","U+A7A0">>, <<"U+A7A3","U+A7A2">>,
       <<"U+A7A5","U+A7A4">>, <<"U+A7A7","U+A7A6">>, <<"U+A7A9","U+A7A8">>, <<"U+A7B5","U+A7B4">>,
       <<"U+A7B7","U+A7B6">>, <<"U+A7B9","U+A7B8">>, <<"U+A7BB","U+A7BA">>, <<"U+A7BD","U+A7BC">>,
       <<"U+A7BF","U+A7BE">>, <<"U+A7C1","U+A7C0">>, <<"U+A7C3","U+A7C2">>, <<"U+A7C8","U+A7C7">>,
       <<"U+A7CA","U+A7C9">>, <<"U+A7CD","U+A7CC">>, <<"U+A7CF","U+A7CE">>, <<"U+A7D1","U+A7D0">>,
       <<"U+A7D3","U+A7D2">>, <<"U+A7D5","U+A7D4">>, <<"U+A7D7","U+A7D6">>, <<"U+A7D9","U+A7D8">>,
       <<"U+A7DB","U+A7DA">>, <<"U+A7F6","U+A7F5">>, <<"U+AB53","U+A7B3">>, <<"U+AB70","U+13A0">>,
       <<"U+AB71","U+13A1">>, <<"U+AB72","U+13A2">>, <<"U+AB73","U+13A3">>, <<"U+AB74","U+13A4">>,
       <<"U+AB75","U+13A5">>, <<"U+AB76","U+13A6">>, <<"U+AB77","U+13A7">>, <<"U+AB78","U+13A8">>,
       <<"U+AB79","U+13A9">>, <<"U+AB7A","U+13AA">>, <<"U+AB7B","U+13AB">>, <<"U+AB7C","U+13AC">>,
       <<"U+AB7D","U+13AD">>, <<"U+AB7E","U+13AE">>, <<"U+AB7F","U+13AF">>, <<"U+AB80","U+13B0">>,
       <<"U+AB81","U+13B1">>, <<"U+AB82","U+13B2">>, <<"U+AB83","U+13B3">>, <<"U+AB84","U+13B4">>,
       <<"U+AB85","U+13B5">>, <<"U+AB86","U+13B6">>, <<"U+AB87","U+13B7">>, <<"U+AB88","U+13B8">>,
       <<"U+AB89","U+13B9">>, <<"U+AB8A","U+13BA">>, <<"U+AB8B","U+13BB">>, <<"U+AB8C","U+13BC">>,
       <<"U+AB8D","U+13BD">>, <<"U+AB8E","U+13BE">>, <<"U+AB8F","U+13BF">>, <<"U+AB90","U+13C0">>,
       <<"U+AB91","U+13C1">>, <<"U+AB92","U+13C2">>, <<"U+AB93","U+13C3">>, <<"U+AB94","U+13C4">>,
       <<"U+AB95","U+13C5">>, <<"U+AB96","U+13C6">>, <<"U+AB97","U+13C7">>, <<"U+AB98","U+13C8">>,
       <<"U+AB99","U+13C9">>, <<"U+AB9A","U+13CA">>, <<"U+AB9B","U+13CB">>, <<"U+AB9C","U+13CC">>,
       <<"U+AB9D","U+13CD">>, <<"U+AB9E","U+13CE">>, <<"U+AB9F","U+13CF">>, <<"U+ABA0","U+13D0">>,
       <<"U+ABA1","U+13D1">>, <<"U+ABA2","U+13D2">>, <<"U+ABA3","U+13D3">>, <<"U+ABA4","U+13D4">>,
       <<"U+ABA5","U+13D5">>, <<"U+ABA6","U+13D6">>, <<"U+ABA7","U+13D7">>, <<"U+ABA8","U+13D8">>,
       <<"U+ABA9","U+13D9">>, <<"U+ABAA","U+13DA">>, <<"U+ABAB","U+13DB">>, <<"U+ABAC","U+13DC">>,
       <<"U+ABAD","U+13DD">>, <<"U+ABAE","U+13DE">>, <<"U+ABAF","U+13DF">>, <<"U+ABB0","U+13E0">>,
       <<"U+ABB1","U+13E1">>, <<"U+ABB2","U+13E2">>, <<"U+ABB3","U+13E3">>, <<"U+ABB4","U+13E4">>,
       <<"U+ABB5","U+13E5">>, <<"U+ABB6","U+13E6">>, <<"U+ABB7","U+13E7">>, <<"U+ABB8","U+13E8">>,
       <<"U+ABB9","U+13E9">>, <<"U+ABBA","U+13EA">>, <<"U+ABBB","U+13EB">>, <<"U+ABBC","U+13EC">>,
       <<"U+ABBD","U+13ED">>, <<"U+ABBE","U+13EE">>, <<"U+ABBF","U+13EF">>, <<"U+FF41","U+FF21">>,
       <<"U+FF42","U+FF22">>, <<"U+FF43","U+FF23">>, <<"U+FF44","U+FF24">>, <<"U+FF45","U+FF25">>,
       <<"U+FF46","U+FF26">>, <<"U+FF47","U+FF27">>, <<"U+FF48","U+FF28">>, <<"U+FF49","U+FF29">>,
       <<"U+FF4A","U+FF2A">>, <<"U+FF4B","U+FF2B">>, <<"U+FF4C","U+FF2C">>, <<"U+FF4D","U+FF2D">>,
       <<"U+FF4E","U+FF2E">>, <<"U+FF4F","U+FF2F">>, <<"U+FF50","U+FF30">>, <<"U+FF51","U+FF31">>,
       <<"U+FF52","U+FF32">>, <<"U+FF53","U+FF33">>, <<"U+FF54","U+FF34">>, <<"U+FF55","U+FF35">>,
       <<"U+FF56","U+FF36">>, <<"U+FF57","U+FF37">>, <<"U+FF58","U+FF38">>, <<"U+FF59","U+FF39">>,
       <<"U+FF5A","U+FF3A">>, <<"U+10428","U+10400">>, <<"U+10429","U+10401">>, <<"U+1042A","U+10402">>,
       <<"U+1042B","U+10403">>, <<"U+1042C","U+10404">>, <<"U+1042D","U+10405">>, <<"U+1042E","U+10406">>,
       <<"U+1042F","U+10407">>, <<"U+10430","U+10408">>, <<"U+10431","U+10409">>, <<"U+10432","U+1040A">>,
       <<"U+10433","U+1040B">>, <<"U+10434","U+1040C">>, <<"U+10435","U+1040D">>, <<"U+10436","U+1040E">>,
       <<"U+10437","U+1040F">>, <<"U+10438","U+10410">>, <<"U+10439","U+10411">>, <<"U+1043A","U+10412">>,
       <<"U+1043B","U+10413">>, <<"U+1043C","U+10414">>, <<"U+1043D","U+10415">>, <<"U+1043E","U+10416">>,
       <<"U+1043F","U+10417">>, <<"U+10440","U+10418">>, <<"U+10441","U+10419">>, <<"U+10442","U+1041A">>,
       <<"U+10443","U+1041B">>, <<"U+10444","U+1041C">>, <<"U+10445","U+1041D">>, <<"U+10446","U+1041E">>,
       <<"U+10447","U+1041F">>, <<"U+10448","U+10420">>, <<"U+10449","U+10421">>, <<"U+1044A","U+10422">>,
       <<"U+1044B","U+10423">>, <<"U+1044C","U+10424">>, <<"U+1044D","U+10425">>, <<"U+1044E","U+10426">>,
       <<"U+1044F","U+10427">>, <<"U+104D8","U+104B0">>, <<"U+104D9","U+104B1">>, <<"U+104DA","U+104B2">>,
       <<"U+104DB","U+104B3">>, <<"U+104DC","U+104B4">>, <<"U+104DD","U+104B5">>, <<"U+104DE","U+104B6">>,
       <<"U+104DF","U+104B7">>, <<"U+104E0","U+104B8">>, <<"U+104E1","U+104B9">>, <<"U+104E2","U+104BA">>,
       <<"U+104E3","U+104BB">>, <<"U+104E4","U+104BC">>, <<"U+104E5","U+104BD">>, <<"U+104E6","U+104BE">>,
       <<"U+104E7","U+104BF">>, <<"U+104E8","U+104C0">>, <<"U+104E9","U+104C1">>, <<"U+104EA","U+104C2">>,
       <<"U+104EB","U+104C3">>, <<"U+104EC","U+104C4">>, <<"U+104ED","U+104C5">>, <<"U+104EE","U+104C6">>,
       <<"U+104EF","U+104C7">>, <<"U+104F0","U+104C8">>, <<"U+104F1","U+104C9">>, <<"U+104F2","U+104CA">>,
       <<"U+104F3","U+104CB">>, <<"U+104F4","U+104CC">>, <<"U+104F5","U+104CD">>, <<"U+104F6","U+104CE">>,
       <<"U+104F7","U+104CF">>, <<"U+104F8","U+104D0">>, <<"U+104F9","U+104D1">>, <<"U+104FA","U+104D2">>,
       <<"U+104FB","U+104D3">>, <<"U+10597","U+10570">>, <<"U+10598","U+10571">>, <<"U+10599","U+10572">>,
       <<"U+1059A","U+10573">>, <<"U+1059B","U+10574">>, <<"U+1059C","U+10575">>, <<"U+1059D","U+10576">>,
       <<"U+1059E","U+10577">>, <<"U+1059F","U+10578">>, <<"U+105A0","U+10579">>, <<"U+105A1","U+1057A">>,
       <<"U+105A3","U+1057C">>, <<"U+105A4","U+1057D">>, <<"U+105A5","U+1057E">>, <<"U+105A6","U+1057F">>,
       <<"U+105A7","U+10580">>, <<"U+105A8","U+10581">>, <<"U+105A9","U+10582">>, <<"U+105AA","U+10583">>,
       <<"U+105AB","U+10584">>, <<"U+105AC","U+10585">>, <<"U+105AD","U+10586">>, <<"U+105AE","U+10587">>,
       <<"U+105AF","U+10588">>, <<"U+105B0","U+10589">>, <<"U+105B1","U+1058A">>, <<"U+105B3","U+1058C">>,
       <<"U+105B4","U+1058D">>, <<"U+105B5","U+1058E">>, <<"U+105B6","U+1058F">>, <<"U+105B7","U+10590">>,
       <<"U+105B8","U+10591">>, <<"U+105B9","U+10592">>, <<"U+105BB","U+10594">>, <<"U+105BC","U+10595">>,
       <<"U+10CC0","U+10C80">>, <<"U+10CC1","U+10C81">>, <<"U+10CC2","U+10C82">>, <<"U+10CC3","U+10C83">>,
       <<"U+10CC4","U+10C84">>, <<"U+10CC5","U+10C85">>, <<"U+10CC6","U+10C86">>, <<"U+10CC7","U+10C87">>,
       <<"U+10CC8","U+10C88">>, <<"U+10CC9","U+10C89">>, <<"U+10CCA","U+10C8A">>, <<"U+10CCB","U+10C8B">>,
       <<"U+10CCC","U+10C8C">>, <<"U+10CCD","U+10C8D">>, <<"U+10CCE","U+10C8E">>, <<"U+10CCF","U+10C8F">>,
       <<"U+10CD0","U+10C90">>, <<"U+10CD1","U+10C91">>, <<"U+10CD2","U+10C92">>, <<"U+10CD3","U+10C93">>,
       <<"U+10CD4","U+10C94">>, <<"U+10CD5","U+10C95">>, <<"U+10CD6","U+10C96">>, <<"U+10CD7","U+10C97">>,
       <<"U+10CD8","U+10C98">>, <<"U+10CD9","U+10C99">>, <<"U+10CDA","U+10C9A">>, <<"U+10CDB","U+10C9B">>,
       <<"U+10CDC","U+10C9C">>, <<"U+10CDD","U+10C9D">>, <<"U+10CDE","U+10C9E">>, <<"U+10CDF","U+10C9F">>,
       <<"U+10CE0","U+10CA0">>, <<"U+10CE1","U+10CA1">>, <<"U+10CE2","U+10CA2">>, <<"U+10CE3","U+10CA3">>,
       <<"U+10CE4","U+10CA4">>, <<"U+10CE5","U+10CA5">>, <<"U+10CE6","U+10CA6">>, <<"U+10CE7","U+10CA7">>,
       <<"U+10CE8","U+10CA8">>, <<"U+10CE9","U+10CA9">>, <<"U+10CEA","U+10CAA">>, <<"U+10CEB","U+10CAB">>,
       <<"U+10CEC","U+10CAC">>, <<"U+10CED","U+10CAD">>, <<"U+10CEE","U+10CAE">>, <<"U+10CEF","U+10CAF">>,
       <<"U+10CF0","U+10CB0">>, <<"U+10CF1","U+10CB1">>, <<"U+10CF2","U+10CB2">>, <<"U+10D70","U+10D50">>,
       <<"U+10D71","U+10D51">>, <<"U+10D72","U+10D52">>, <<"U+10D73","U+10D53">>, <<"U+10D74","U+10D54">>,
       <<"U+10D75","U+10D55">>, <<"U+10D76","U+10D56">>, <<"U+10D77","U+10D57">>, <<"U+10D78","U+10D58">>,
       <<"U+10D79","U+10D59">>, <<"U+10D7A","U+10D5A">>, <<"U+10D7B","U+10D5B">>, <<"U+10D7C","U+10D5C">>,
       <<"U+10D7D","U+10D5D">>, <<"U+10D7E","U+10D5E">>, <<"U+10D7F","U+10D5F">>, <<"U+10D80","U+10D60">>,
       <<"U+10D81","U+10D61">>, <<"U+10D82","U+10D62">>, <<"U+10D83","U+10D63">>, <<"U+10D84","U+10D64">>,
       <<"U+10D85","U+10D65">>, <<"U+118C0","U+118A0">>, <<"U+118C1","U+118A1">>, <<"U+118C2","U+118A2">>,
       <<"U+118C3","U+118A3">>, <<"U+118C4","U+118A4">>, <<"U+118C5","U+118A5">>, <<"U+118C6","U+118A6">>,
       <<"U+118C7","U+118A7">>, <<"U+118C8","U+118A8">>, <<"U+118C9","U+118A9">>, <<"U+118CA","U+118AA">>,
       <<"U+118CB","U+118AB">>, <<"U+118CC","U+118AC">>, <<"U+118CD","U+118AD">>, <<"U+118CE","U+118AE">>,
       <<"U+118CF","U+118AF">>, <<"U+118D0","U+118B0">>, <<"U+118D1","U+118B1">>, <<"U+118D2","U+118B2">>,
       <<"U+118D3","U+118B3">>, <<"U+118D4","U+118B4">>, <<"U+118D5","U+118B5">>, <<"U+118D6","U+118B6">>,
       <<"U+118D7","U+118B7">>, <<"U+118D8","U+118B8">>, <<"U+118D9","U+118B9">>, <<"U+118DA","U+118BA">>,
       <<"U+118DB","U+118BB">>, <<"U+118DC","U+118BC">>, <<"U+118DD","U+118BD">>, <<"U+118DE","U+118BE">>,
       <<"U+118DF","U+118BF">>, <<"U+16E60","U+16E40">>, <<"U+16E61","U+16E41">>, <<"U+16E62","U+16E42">>,
       <<"U+16E63","U+16E43">>, <<"U+16E64","U+16E44">>, <<"U+16E65","U+16E45">>, <<"U+16E66","U+16E46">>,
       <<"U+16E67","U+16E47">>, <<"U+16E68","U+16E48">>, <<"U+16E69","U+16E49">>, <<"U+16E6A","U+16E4A">>,
       <<"U+16E6B","U+16E4B">>, <<"U+16E6C","U+16E4C">>, <<"U+16E6D","U+16E4D">>, <<"U+16E6E","U+16E4E">>,
       <<"U+16E6F","U+16E4F">>, <<"U+16E70","U+16E50">>, <<"U+16E71","U+16E51">>, <<"U+16E72","U+16E52">>,
       <<"U+16E73","U+16E53">>, <<"U+16E74","U+16E54">>, <<"U+16E75","U+16E55">>, <<"U+16E76","U+16E56">>,
       <<"U+16E77","U+16E57">>, <<"U+16E78","U+16E58">>, <<"U+16E79","U+16E59">>, <<"U+16E7A","U+16E5A">>,
       <<"U+16E7B","U+16E5B">>, <<"U+16E7C","U+16E5C">>, <<"U+16E7D","U+16E5D">>, <<"U+16E7E","U+16E5E">>,
       <<"U+16E7F","U+16E5F">>, <<"U+16EBB","U+16EA0">>, <<"U+16EBC","U+16EA1">>, <<"U+16EBD","U+16EA2">>,
       <<"U+16EBE","U+16EA3">>, <<"U+16EBF","U+16EA4">>, <<"U+16EC0","U+16EA5">>, <<"U+16EC1","U+16EA6">>,
       <<"U+16EC2","U+16EA7">>, <<"U+16EC3","U+16EA8">>, <<"U+16EC4","U+16EA9">>, <<"U+16EC5","U+16EAA">>,
       <<"U+16EC6","U+16EAB">>, <<"U+16EC7","U+16EAC">>, <<"U+16EC8","U+16EAD">>, <<"U+16EC9","U+16EAE">>,
       <<"U+16ECA","U+16EAF">>, <<"U+16ECB","U+16EB0">>, <<"U+16ECC","U+16EB1">>, <<"U+16ECD","U+16EB2">>,
       <<"U+16ECE","U+16EB3">>, <<"U+16ECF","U+16EB4">>, <<"U+16ED0","U+16EB5">>, <<"U+16ED1","U+16EB6">>,
       <<"U+16ED2","U+16EB7">>, <<"U+16ED3","U+16EB8">>, <<"U+1E922","U+1E900">>, <<"U+1E923","U+1E901">>,
       <<"U+1E924","U+1E902">>, <<"U+1E925","U+1E903">>, <<"U+1E926","U+1E904">>, <<"U+1E927","U+1E905">>,
       <<"U+1E928","U+1E906">>, <<"U+1E929","U+1E907">>, <<"U+1E92A","U+1E908">>, <<"U+1E92B","U+1E909">>,
       <<"U+1E92C","U+1E90A">>, <<"U+1E92D","U+1E90B">>, <<"U+1E92E","U+1E90C">>, <<"U+1E92F","U+1E90D">>,
       <<"U+1E930","U+1E90E">>, <<"U+1E931","U+1E90F">>, <<"U+1E932","U+1E910">>, <<"U+1E933","U+1E911">>,
       <<"U+1E934","U+1E912">>, <<"U+1E935","U+1E913">>, <<"U+1E936","U+1E914">>, <<"U+1E937","U+1E915">>,
       <<"U+1E938","U+1E916">>, <<"U+1E939","U+1E917">>, <<"U+1E93A","U+1E918">>, <<"U+1E93B","U+1E919">>,
       <<"U+1E93C","U+1E91A">>, <<"U+1E93D","U+1E91B">>, <<"U+1E93E","U+1E91C">>, <<"U+1E93F","U+1E91D">>,
       <<"U+1E940","U+1E91E">>, <<"U+1E941","U+1E91F">>, <<"U+1E942","U+1E920">>, <<"U+1E943","U+1E921">>
    >>

\* the characters whose upper-casing is a string of several characters
\* (the unconditional mappings of Unicode's SpecialCasing), each with that
\* string
SpecialCasing ==
    <<
       <<"U+00DF",<<"S","S">>>>, <<"U+0149",<<"U+02BC","N">>>>,
       <<"U+01F0",<<"J","U+030C">>>>, <<"U+0390",<<"U+0399","U+0308","U+0301">>>>,
       <<"U+03B0",<<"U+03A5","U+0308","U+0301">>>>, <<"U+0587",<<"U+0535","U+0552">>>>,
       <<"U+1E96",<<"H","U+0331">>>>, <<"U+1E97",<<"T","U+0308">>>>,
       <<"U+1E98",<<"W","U+030A">>>>, <<"U+1E99",<<"Y","U+030A">>>>,
       <<"U+1E9A",<<"A","U+02BE">>>>, <<"U+1F50",<<"U+03A5","U+0313">>>>,
       <<"U+1F52",<<"U+03A5","U+0313","U+0300">>>>, <<"U+1F54",<<"U+03A5","U+0313","U+0301">>>>,
       <<"U+1F56",<<"U+03A5","U+0313","U+0342">>>>, <<"U+1F80",<<"U+1F08","U+0399">>>>,
       <<"U+1F81",<<"U+1F09","U+0399">>>>, <<"U+1F82",<<"U+1F0A","U+0399">>>>,
       <<"U+1F83",<<"U+1F0B","U+0399">>>>, <<"U+1F84",<<"U+1F0C","U+0399">>>>,
       <<"U+1F85",<<"U+1F0D","U+0399">>>>, <<"U+1F86",<<"U+1F0E","U+0399">>>>,
       <<"U+1F87",<<"U+1F0F","U+0399">>>>, <<"U+1F88",<<"U+1F08","U+0399">>>>,
       <<"U+1F89",<<"U+1F09","U+0399">>>>, <<"U+1F8A",<<"U+1F0A","U+0399">>>>,
       <<"U+1F8B",<<"U+1F0B","U+0399">>>>, <<"U+1F8C",<<"U+1F0C","U+0399">>>>,
       <<"U+1F8D",<<"U+1F0D","U+0399">>>>, <<"U+1F8E",<<"U+1F0E","U+0399">>>>,
       <<"U+1F8F",<<"U+1F0F","U+0399">>>>, <<"U+1F90",<<"U+1F28","U+0399">>>>,
       <<"U+1F91",<<"U+1F29","U+0399">>>>, <<"U+1F92",<<"U+1F2A","U+0399">>>>,
       <<"U+1F93",<<"U+1F2B","U+0399">>>>, <<"U+1F94",<<"U+1F2C","U+0399">>>>,
       <<"U+1F95",<<"U+1F2D","U+0399">>>>, <<"U+1F96",<<"U+1F2E","U+0399">>>>,
       <<"U+1F97",<<"U+1F2F","U+0399">>>>, <<"U+1F98",<<"U+1F28","U+0399">>>>,
       <<"U+1F99",<<"U+1F29","U+0399">>>>, <<"U+1F9A",<<"U+1F2A","U+0399">>>>,
       <<"U+1F9B",<<"U+1F2B","U+0399">>>>, <<"U+1F9C",<<"U+1F2C","U+0399">>>>,
       <<"U+1F9D",<<"U+1F2D","U+0399">>>>, <<"U+1F9E",<<"U+1F2E","U+0399">>>>,
       <<"U+1F9F",<<"U+1F2F","U+0399">>>>, <<"U+1FA0",<<"U+1F68","U+0399">>>>,
       <<"U+1FA1",<<"U+1F69","U+0399">>>>, <<"U+1FA2",<<"U+1F6A","U+0399">>>>,
       <<"U+1FA3",<<"U+1F6B","U+0399">>>>, <<"U+1FA4",<<"U+1F6C","U+0399">>>>,
       <<"U+1FA5",<<"U+1F6D","U+0399">>>>, <<"U+1FA6",<<"U+1F6E","U+0399">>>>,
       <<"U+1FA7",<<"U+1F6F","U+0399">>>>, <<"U+1FA8",<<"U+1F68","U+0399">>>>,
       <<"U+1FA9",<<"U+1F69","U+0399">>>>, <<"U+1FAA",<<"U+1F6A","U+0399">>>>,
       <<"U+1FAB",<<"U+1F6B","U+0399">>>>, <<"U+1FAC",<<"U+1F6C","U+0399">>>>,
       <<"U+1FAD",<<"U+1F6D","U+0399">>>>, <<"U+1FAE",<<"U+1F6E","U+0399">>>>,
       <<"U+1FAF",<<"U+1F6F","U+0399">>>>, <<"U+1FB2",<<"U+1FBA","U+0399">>>>,
       <<"U+1FB3",<<"U+0391","U+0399">>>>, <<"U+1FB4",<<"U+0386","U+0399">>>>,
       <<"U+1FB6",<<"U+0391","U+0342">>>>, <<"U+1FB7",<<"U+0391","U+0342","U+0399">>>>,
       <<"U+1FBC",<<"U+0391","U+0399">>>>, <<"U+1FC2",<<"U+1FCA","U+0399">>>>,
       <<"U+1FC3",<<"U+0397","U+0399">>>>, <<"U+1FC4",<<"U+0389","U+0399">>>>,
       <<"U+1FC6",<<"U+0397","U+0342">>>>, <<"U+1FC7",<<"U+0397","U+0342","U+0399">>>>,
       <<"U+1FCC",<<"U+0397","U+0399">>>>, <<"U+1FD2",<<"U+0399","U+0308","U+0300">>>>,
       <<"U+1FD3",<<"U+0399","U+0308","U+0301">>>>, <<"U+1FD6",<<"U+0399","U+0342">>>>,
       <<"U+1FD7",<<"U+0399","U+0308","U+0342">>>>, <<"U+1FE2",<<"U+03A5","U+0308","U+0300">>>>,
       <<"U+1FE3",<<"U+03A5","U+0308","U+0301">>>>, <<"U+1FE4",<<"U+03A1","U+0313">>>>,
       <<"U+1FE6",<<"U+03A5","U+0342">>>>, <<"U+1FE7",<<"U+03A5","U+0308","U+0342">>>>,
       <<"U+1FF2",<<"U+1FFA","U+0399">>>>, <<"U+1FF3",<<"U+03A9","U+0399">>>>,
       <<"U+1FF4",<<"U+038F","U+0399">>>>, <<"U+1FF6",<<"U+03A9","U+0342">>>>,
       <<"U+1FF7",<<"U+03A9","U+0342","U+0399">>>>, <<"U+1FFC",<<"U+03A9","U+0399">>>>,
       <<"U+FB00",<<"F","F">>>>, <<"U+FB01",<<"F","I">>>>,
       <<"U+FB02",<<"F","L">>>>, <<"U+FB03",<<"F","F","I">>>>,
       <<"U+FB04",<<"F","F","L">>>>, <<"U+FB05",<<"S","T">>>>,
       <<"U+FB06",<<"S","T">>>>, <<"U+FB13",<<"U+0544","U+0546">>>>,
       <<"U+FB14",<<"U+0544","U+0535">>>>, <<"U+FB15",<<"U+0544","U+053B">>>>,
       <<"U+FB16",<<"U+054E","U+0546">>>>, <<"U+FB17",<<"U+0544","U+053D">>>>
    >>

\* toUpperCase on one character outside a-z that it changes
UpperCaseMapping ==
    [c \in {SimpleUppercase[i][1] : i \in DOMAIN SimpleUppercase}
            \cup {SpecialCasing[i][1] : i \in DOMAIN SpecialCasing} |->
        IF \E i \in DOMAIN SpecialCasing : SpecialCasing[i][1] = c
        THEN SpecialCasing[CHOOSE i \in DOMAIN SpecialCasing :
                              SpecialCasing[i][1] = c][2]
        ELSE <<SimpleUppercase[CHOOSE i \in DOMAIN SimpleUppercase :
                                  SimpleUppercase[i][1] = c][2]>>]

\* the upper-casing of one character: a string of one or more characters
UpperChar(c) ==
    IF \E i \in 1..Len(LowerChars) : LowerChars[i] = c
    THEN <<UpperChars[IndexIn(c, LowerChars)]>>
    ELSE IF c \in DOMAIN UpperCaseMapping
    THEN UpperCaseMapping[c]
    ELSE <<c>>

LowerChar(c) ==
    IF \E i \in 1..Len(UpperChars) : UpperChars[i] = c
    THEN LowerChars[IndexIn(c, UpperChars)]
    ELSE c

toUpperCaseIdentity(s) == s

RECURSIVE toUpperCase(_)
toUpperCase(s) ==
    IF s = <<>> THEN <<>> ELSE UpperChar(Head(s)) \o toUpperCase(Tail(s))

----------------------------------------------------------------------------
(* DeliveryStatus and the Track123 status table *)

DeliveryStatus ==
    {"pending", "info_received", "in_transit", "out_for_delivery",
     "delivered", "exception", "failed_attempt", "expired", "unknown"}

S_PENDING == <<"P","E","N","D","I","N","G">>
S_NO_FOUND == <<"N","O","_","F","O","U","N","D">>
S_INFO_RECEIVED == <<"I","N","F","O","_","R","E","C","E","I","V","E","D">>
S_IN_TRANSIT == <<"I","N","_","T","R","A","N","S","I","T">>
S_OUT_FOR_DELIVERY ==
    <<"O","U","T","_","F","O","R","_","D","E","L","I","V","E","R","Y">>
S_DELIVERED == <<"D","E","L","I","V","E","R","E","D">>
S_EXCEPTION == <<"E","X","C","E","P","T","I","O","N">>
S_FAILED_ATTEMPT == <<"F","A","I","L","E","D","_","A","T","T","E","M","P","T">>
S_EXPIRED == <<"E","X","P","I","R","E","D">>

statusMap ==
    (S_PENDING :> "pending") @@
    (S_NO_FOUND :> "pending") @@
    (S_INFO_RECEIVED :> "info_received") @@
    (S_IN_TRANSIT :> "in_transit") @@
    (S_OUT_FOR_DELIVERY :> "out_for_delivery") @@
    (S_DELIVERED :> "delivered") @@
    (S_EXCEPTION :> "exception") @@
    (S_FAILED_ATTEMPT :> "failed_attempt") @@
    (S_EXPIRED :> "expired")

\* status is an optional string; !status holds of undefined and of ''
mapTrack123Status(status) ==
    IF ~IsDefined(status) \/ ValueOf(status) = <<>>
    THEN "pending"
    ELSE LET key == toUpperCase(ValueOf(status))
         IN IF key \in DOMAIN statusMap THEN statusMap[key] ELSE "unknown"

----------------------------------------------------------------------------
(* Dates and their JSON form *)

Date(n) == [k |-> "date", ms |-> n]
InvalidDate == [k |-> "invalid"]

\* new Date(s) of a gateway time string: Some(n) is a string that denotes
\* the instant n, Undefined a string Date cannot parse (or no string).
DateOfString(s) == IF IsDefined(s) THEN Date(ValueOf(s)) ELSE InvalidDate

----------------------------------------------------------------------------
(* Domain: createTracking *)

\* x || y on optional strings: undefined and '' are falsy
OrElse(o, dflt) == IF IsDefined(o) /\ ValueOf(o) # "" THEN ValueOf(o) ELSE dflt

createTracking(params, id, date) ==
    [id |-> id,
     trackingNumber |-> params.trackingNumber,
     nickname |-> OrElse(params.nickname, params.trackingNumber),
     carrier |-> params.carrier,
     status |-> OrElse(params.status, "pending"),
     events |-> IF IsDefined(params.events) THEN ValueOf(params.events) ELSE <<>>,
     estimatedDelivery |-> Undefined,
     transitDays |-> params.transitDays,
     createdAt |-> date,
     updatedAt |-> date]

----------------------------------------------------------------------------
(* The gateway's payloads: TrackingContent, LocalLogisticsInfo, TrackingDetail *)

TrackNos == {"TN1", "TN2"}

S_in_transit == <<"i","n","_","t","r","a","n","s","i","t">>
S_Delivered == <<"D","e","l","i","v","e","r","e","d">>
S_ARRIVED == <<"A","R","R","I","V","E","D">>

Detail1 ==
    [eventTime |-> Some(1), eventDetail |-> "Picked up",
     location |-> Some("Bangkok"), transitSubStatus |-> Some(S_IN_TRANSIT)]
Detail2 ==
    [eventTime |-> Some(0), eventDetail |-> "Created",
     location |-> Undefined, transitSubStatus |-> Undefined]
Detail3 ==
    [eventTime |-> Undefined, eventDetail |-> "Arrived at hub",
     location |-> Some(""), transitSubStatus |-> Some(S_ARRIVED)]

\* the part of a TrackingContent other than trackNo
ProfileFull ==
    [transitStatus |-> Some(S_Delivered), transitDays |-> Some(2),
     localLogisticsInfo |->
         Some([courierCode |-> "kerry", courierNameEN |-> "Kerry Express",
               trackingDetails |-> Some(<<Detail1, Detail2>>)])]
ProfileBare ==
    [transitStatus |-> Some(S_in_transit), transitDays |-> Undefined,
     localLogisticsInfo |-> Undefined]
ProfileNoName ==
    [transitStatus |-> Some(S_ARRIVED), transitDays |-> Some(0),
     localLogisticsInfo |->
         Some([courierCode |-> "flash", courierNameEN |-> "",
               trackingDetails |-> Undefined])]
ProfileNoStatus ==
    [transitStatus |-> Undefined, transitDays |-> Some(4),
     localLogisticsInfo |->
         Some([courierCode |-> "", courierNameEN |-> "",
               trackingDetails |-> Some(<<Detail3>>)])]

Content(trackNo, p) ==
    [trackNo |-> trackNo, transitStatus |-> p.transitStatus,
     transitDays |-> p.transitDays,
     localLogisticsInfo |-> p.localLogisticsInfo]

Contents ==
    { Content(n, p) : n \in TrackNos, p \in {ProfileFull, ProfileBare} }
    \cup { Content("TN1", p) : p \in {ProfileNoName, ProfileNoStatus} }

ContentLists == UNION { [1..n -> Contents] : n \in 0..MaxContent }

\* A gateway response as request() sees it: the transport outcome of fetch,
\* and for an HTTP-ok response the body's code and data.accepted.content
\* (Undefined when data, accepted or content is missing).
SUCCESS == "00000"

Response(transport, code, content) ==
    [transport |-> transport, code |-> code, content |-> content]

QueryResponses ==
    { Response("network_error", "", Undefined),
      Response("http_error", "", Undefined),
      Response("ok", "A0400", Undefined),
      Response("ok", SUCCESS, Undefined) }
    \cup { Response("ok", SUCCESS, Some(l)) : l \in ContentLists }
    \cup { Response("ok", "A0400", Some(<<Content("TN1", ProfileBare)>>)) }

ImportResponses ==
    { Response("network_error", "", Undefined),
      Response("http_error", "", Undefined),
      Response("ok", "A0400", Undefined),
      Response("ok", SUCCESS, Undefined) }

----------------------------------------------------------------------------
(* Track123Service *)

Threw(message) == [threw |-> TRUE, message |-> message, value |-> <<>>]
Returned(value) == [threw |-> FALSE, message |-> "", value |-> value]

\* request: rejects when fetch rejects or the HTTP status is not ok,
\* otherwise resolves to the parsed body
request(resp) ==
    IF resp.transport = "network_error" THEN Threw("Failed to fetch")
    ELSE IF resp.transport = "http_error" THEN Threw("API request failed: 500")
    ELSE Returned(resp)

mapToTracking(data, id, date) ==
    LET logistic == data.localLogisticsInfo
        courierCode == IF IsDefined(logistic)
                       THEN Some(ValueOf(logistic).courierCode) ELSE Undefined
        courierNameEN == IF IsDefined(logistic)
                         THEN Some(ValueOf(logistic).courierNameEN) ELSE Undefined
        carrier == [code |-> OrElse(courierCode, "unknown"),
                    name |-> OrElse(courierNameEN, OrElse(courierCode, "Unknown"))]
        status == mapTrack123Status(data.transitStatus)
        details == IF IsDefined(logistic)
                      /\ IsDefined(ValueOf(logistic).trackingDetails)
                   THEN ValueOf(ValueOf(logistic).trackingDetails) ELSE <<>>
        events == [i \in 1..Len(details) |->
                     [timestamp |-> DateOfString(details[i].eventTime),
                      location |-> OrElse(details[i].location, ""),
                      description |-> details[i].eventDetail,
                      status |-> mapTrack123Status(details[i].transitSubStatus)]]
    IN createTracking([trackingNumber |-> data.trackNo,
                       nickname |-> Some(data.trackNo),
                       carrier |-> carrier,
                       status |-> Some(status),
                       events |-> Some(events),
                       transitDays |-> data.transitDays], id, date)

\* Track123Service.getTrackings on the response resp to its /track/query
\* request; the i-th mapped item takes the identifier firstId + i - 1
getTrackings(resp, firstId, date) ==
    LET r == request(resp)
    IN IF r.threw THEN r
       ELSE IF r.value.code # SUCCESS \/ ~IsDefined(r.value.content)
            THEN Returned(<<>>)
       ELSE LET content == ValueOf(r.value.content)
            IN Returned([i \in 1..Len(content) |->
                           mapToTracking(content[i], firstId + i - 1, date)])

\* Track123Service.registerTracking on the response resp to /track/import
registerTracking(resp) ==
    LET r == request(resp)
    IN IF r.threw THEN r
       ELSE IF r.value.code # SUCCESS THEN Threw("Failed to register tracking")
       ELSE Returned(<<>>)

----------------------------------------------------------------------------
(* Track123Service.instantTrack, one action per await *)

Pending == [kind |-> "pending", value |-> Undefined, message |-> ""]
Resolved(t) == [kind |-> "ok", value |-> Some(t), message |-> ""]
Rejected(message) == [kind |-> "error", value |-> Undefined, message |-> message]

NOT_FOUND == "Tracking info not found"

Nicknames == {Undefined, Some(""), Some("Gift")}

\* if (trackings.length === 0): the first query found nothing
NotFoundFirstAlways(list) == TRUE

NotFoundFirst(list) == Len(list) = 0

\* the step after a successful registerTracking
AfterRegistrationNoWait == "query2"

AfterRegistration == "wait"

\* nickname ? { ...t, nickname } : t
ApplyNicknameIgnored(t, nickname) == t

ApplyNickname(t, nickname) ==
    IF IsDefined(nickname) /\ ValueOf(nickname) # ""
    THEN [t EXCEPT !.nickname = ValueOf(nickname)]
    ELSE t

\* the end of instantTrack: return trackings[0] or throw
SettleUnchecked(list, nickname) ==
    IF Len(list) > 0 THEN Resolved(ApplyNickname(list[1], nickname))
    ELSE [kind |-> "ok", value |-> Undefined, message |-> ""]

Settle(list, nickname) ==
    IF Len(list) > 0 THEN Resolved(ApplyNickname(list[1], nickname))
    ELSE Rejected(NOT_FOUND)

IdsAvailable(resp) ==
    IsDefined(resp.content) => nextId + Len(ValueOf(resp.content)) - 1 <= MaxId

InstantTrackCall(trackingNumber, nickname) ==
    /\ rpc = "idle"
    /\ rpc' = "query1"
    /\ rtn' = trackingNumber
    /\ rnick' = nickname
    /\ trackings' = <<>>
    /\ calls' = <<>>
    /\ responses' = <<>>
    /\ result' = Pending
    /\ UNCHANGED <<statVars, appVars, asyncVars, svcVars, now, nextId, normVars, repoVars>>

\* let trackings = await this.getTrackings([trackingNumber])
FirstQuery(resp) ==
    /\ rpc = "query1"
    /\ IdsAvailable(resp)
    /\ LET r == getTrackings(resp, nextId, Date(now))
       IN /\ calls' = Append(calls, "query")
          /\ responses' = Append(responses, resp)
          /\ IF r.threw
             THEN /\ result' = Rejected(r.message)
                  /\ rpc' = "done"
                  /\ UNCHANGED <<trackings, nextId>>
             ELSE /\ trackings' = r.value
                  /\ nextId' = nextId + Len(r.value)
                  /\ IF NotFoundFirst(r.value)
                     THEN /\ rpc' = "register"
                          /\ UNCHANGED result
                     ELSE /\ rpc' = "done"
                          /\ result' = Settle(r.value, rnick)
    /\ UNCHANGED <<statVars, appVars, asyncVars, svcVars, now, rtn, rnick, normVars, repoVars>>

\* try { await this.registerTracking(trackingNumber) ... } catch (e) { log }
Register(resp) ==
    /\ rpc = "register"
    /\ LET r == registerTracking(resp)
       IN /\ calls' = Append(calls, "register")
          /\ responses' = Append(responses, resp)
          /\ IF r.threw
             THEN /\ result' = Settle(trackings, rnick)
                  /\ rpc' = "done"
             ELSE /\ rpc' = AfterRegistration
                  /\ UNCHANGED result
    /\ UNCHANGED <<statVars, appVars, asyncVars, svcVars, now, nextId, rtn, rnick, trackings, normVars, repoVars>>

\* await new Promise(r => setTimeout(r, 500))
Wait ==
    /\ rpc = "wait"
    /\ calls' = Append(calls, "wait")
    /\ rpc' = "query2"
    /\ UNCHANGED <<statVars, appVars, asyncVars, svcVars, now, nextId, rtn, rnick, trackings, responses, result,
                   normVars, repoVars>>

\* trackings = await this.getTrackings([trackingNumber]), inside the try
SecondQuery(resp) ==
    /\ rpc = "query2"
    /\ IdsAvailable(resp)
    /\ LET r == getTrackings(resp, nextId, Date(now))
       IN /\ calls' = Append(calls, "query")
          /\ responses' = Append(responses, resp)
          /\ rpc' = "done"
          /\ IF r.threw
             THEN /\ result' = Settle(trackings, rnick)
                  /\ UNCHANGED <<trackings, nextId>>
             ELSE /\ trackings' = r.value
                  /\ nextId' = nextId + Len(r.value)
                  /\ result' = Settle(r.value, rnick)
    /\ UNCHANGED <<statVars, appVars, asyncVars, svcVars, now, rtn, rnick, normVars, repoVars>>

\* the caller takes the settled promise and the call's frame is gone
InstantTrackDone ==
    /\ rpc = "done"
    /\ rpc' = "idle"
    /\ rtn' = "TN1"
    /\ rnick' = Undefined
    /\ trackings' = <<>>
    /\ calls' = <<>>
    /\ responses' = <<>>
    /\ result' = Pending
    /\ UNCHANGED <<statVars, appVars, asyncVars, svcVars, now, nextId, normVars, repoVars>>

\* no AnalyticsService call was made yet
NoCall == [op |-> "none"]

\* the handleTrack runs that can be in flight together
Runs == {1, 2}

\* no handleTrack run began yet
NoBatch == [before |-> <<>>, started |-> <<>>, saves |-> <<>>]

\* no repository call has resumed yet
NoWrite == [op |-> "none"]

\* createTrackingService: the gateway resolver when apiKey is truthy, the
\* stub otherwise
createTrackingService(key) ==
    IF IsDefined(key) /\ ValueOf(key) # "" THEN "Track123Service"
    ELSE "MockTrack123Service"

\* time passes between two steps
Tick ==
    /\ now < MaxTime
    /\ now' = now + 1
    /\ UNCHANGED <<statVars, appVars, asyncVars, svcVars, nextId, normVars, resolverVars, repoVars>>

Init ==
    /\ now = 0
    /\ nextId = 1
    /\ normIn = Undefined
    /\ normOut = "none"
    /\ rpc = "idle"
    /\ rtn = "TN1"
    /\ rnick = Undefined
    /\ trackings = <<>>
    /\ calls = <<>>
    /\ responses = <<>>
    /\ result = Pending
    /\ storage = Undefined
    /\ lastOp = [op |-> "none", threw |-> FALSE, index |-> 0]
    /\ saved = <<>>
    /\ aOp = NoCall
    /\ tpc = [p \in Runs |-> "idle"]
    /\ targ = [p \in Runs |-> "TN1"]
    /\ isLoading = FALSE
    /\ error = Undefined
    /\ currentPage = "home"
    /\ appTrackings = <<>>
    /\ batch = NoBatch
    /\ tref = [p \in Runs |-> Undefined]
    /\ pending = <<>>
    /\ wrote = NoWrite
    /\ apiKey = Some("secret")
    /\ service = createTrackingService(apiKey)

NextResolve ==
    \/ \E tn \in TrackNos, nickname \in Nicknames : InstantTrackCall(tn, nickname)
    \/ \E resp \in QueryResponses : FirstQuery(resp)
    \/ \E resp \in ImportResponses : Register(resp)
    \/ Wait
    \/ \E resp \in QueryResponses : SecondQuery(resp)
    \/ InstantTrackDone
    \/ Tick

SpecResolve == Init /\ [][NextResolve]_vars

----------------------------------------------------------------------------
(* Resolver properties *)

\* what a gateway response to /track/query says
QueryHasMatch(resp) ==
    /\ resp.transport = "ok"
    /\ resp.code = SUCCESS
    /\ IsDefined(resp.content)
    /\ Len(ValueOf(resp.content)) > 0

QueryEmpty(resp) ==
    /\ resp.transport = "ok"
    /\ resp.code = SUCCESS
    /\ (IsDefined(resp.content) => Len(ValueOf(resp.content)) = 0)

QueryFailed(resp) == resp.transport # "ok" \/ resp.code # SUCCESS

\* what a gateway response to /track/import says
ImportSucceeded(resp) == resp.transport = "ok" /\ resp.code = SUCCESS

CountOf(op) == Cardinality({i \in 1..Len(calls) : calls[i] = op})

NicknameSupplied == IsDefined(rnick) /\ ValueOf(rnick) # ""

\* C1: when the first query returns at least one match, instantTrack has
\* settled with a Tracking after that single query: no registration, no
\* wait and no second query are ever made.
C1_KnownNumberNoRegistration ==
    (Len(responses) >= 1 /\ QueryHasMatch(responses[1]))
        => /\ rpc = "done"
           /\ result.kind = "ok"
           /\ IsDefined(result.value)
           /\ calls = <<"query">>

C1_Witness ==
    /\ rpc = "done"
    /\ Len(responses) = 1
    /\ QueryHasMatch(responses[1])
    /\ result.kind = "ok"

\* C2: when the first query returns no match, the registration succeeds and
\* the re-query returns a match, the calls of the finished instantTrack are
\* exactly query, register, wait, query in this order, and it returns the
\* Tracking built from the first item of the re-query.
C2_RegisterWaitRequery ==
    (/\ rpc = "done"
     /\ Len(responses) >= 2
     /\ QueryEmpty(responses[1])
     /\ ImportSucceeded(responses[2])
     /\ QueryHasMatch(responses[Len(responses)]))
        => /\ calls = <<"query", "register", "wait", "query">>
           /\ Len(responses) = 3
           /\ result.kind = "ok"
           /\ IsDefined(result.value)
           /\ ValueOf(result.value).trackingNumber =
                  ValueOf(responses[3].content)[1].trackNo
           /\ ValueOf(result.value).transitDays =
                  ValueOf(responses[3].content)[1].transitDays
           /\ ValueOf(result.value) = ApplyNickname(trackings[1], rnick)

C2_Witness ==
    /\ rpc = "done"
    /\ Len(responses) = 3
    /\ QueryEmpty(responses[1])
    /\ ImportSucceeded(responses[2])
    /\ QueryHasMatch(responses[3])
    /\ result.kind = "ok"

\* C3: no instantTrack issues more than two queries or more than one
\* registration, and when the first query and the re-query after a
\* successful registration both return no match it ends, after that
\* re-query, rejected with 'Tracking info not found'.
C3_NotFoundAfterRequery ==
    /\ CountOf("query") <= 2
    /\ CountOf("register") <= 1
    /\ CountOf("wait") <= 1
    /\ (/\ Len(responses) = 3
        /\ QueryEmpty(responses[1])
        /\ ImportSucceeded(responses[2])
        /\ QueryEmpty(responses[3]))
           => /\ rpc = "done"
              /\ result = Rejected(NOT_FOUND)
              /\ calls = <<"query", "register", "wait", "query">>

C3_Witness ==
    /\ rpc = "done"
    /\ Len(responses) = 3
    /\ QueryEmpty(responses[1])
    /\ ImportSucceeded(responses[2])
    /\ QueryEmpty(responses[3])
    /\ result = Rejected(NOT_FOUND)

\* C4: when the registration call fails, the finished instantTrack has
\* nevertheless waited and repeated the query once after the registration.
C4_RegistrationFailureSwallowed ==
    (/\ rpc = "done"
     /\ Len(responses) >= 2
     /\ QueryEmpty(responses[1])
     /\ ~ImportSucceeded(responses[2]))
        => calls = <<"query", "register", "wait", "query">>

\* C5: a failed gateway query (transport failure or non-success code),
\* whether the first query or the re-query, ends instantTrack with an error
\* that is not 'Tracking info not found', and no registration follows it.
C5_QueryFailureAborts ==
    /\ (Len(responses) >= 1 /\ QueryFailed(responses[1]))
          => /\ rpc = "done"
             /\ result.kind = "error"
             /\ result.message # NOT_FOUND
             /\ calls = <<"query">>
    /\ (Len(responses) = 3 /\ QueryFailed(responses[3]))
          => /\ rpc = "done"
             /\ result.kind = "error"
             /\ result.message # NOT_FOUND

\* the query response whose first item the finished call returned
MatchedResponse == responses[Len(responses)]

\* C6: a successful instantTrack returns the Tracking mapped from the first
\* item of the matching query response: its nickname is the supplied
\* (non-empty) nickname, or the tracking number when none is supplied, and
\* every other field is the one mapToTracking gives the first item.
C6_FirstMatchWithNickname ==
    (rpc = "done" /\ result.kind = "ok")
        => /\ IsDefined(result.value)
           /\ QueryHasMatch(MatchedResponse)
           /\ LET t == ValueOf(result.value)
                  c == ValueOf(MatchedResponse.content)[1]
                  m == mapToTracking(c, t.id, t.createdAt)
              IN /\ t.nickname = IF NicknameSupplied THEN ValueOf(rnick)
                                 ELSE t.trackingNumber
                 /\ t.trackingNumber = c.trackNo
                 /\ t.transitDays = c.transitDays
                 /\ t.status = mapTrack123Status(c.transitStatus)
                 /\ t.id = nextId - Len(ValueOf(MatchedResponse.content))
                 /\ [t EXCEPT !.nickname = ""] = [m EXCEPT !.nickname = ""]

C6_WitnessNickname ==
    /\ rpc = "done"
    /\ result.kind = "ok"
    /\ NicknameSupplied
    /\ Len(ValueOf(MatchedResponse.content)) > 1
    /\ ValueOf(MatchedResponse.content)[1] # ValueOf(MatchedResponse.content)[2]
    /\ ValueOf(result.value).nickname = "Gift"
    /\ ValueOf(result.value).trackingNumber # rtn

----------------------------------------------------------------------------
(* The normalizer on its own *)

\* s with the characters at the positions in mask put in lower case
LowerAt(s, mask) ==
    [i \in 1..Len(s) |-> IF i \in mask THEN LowerChar(s[i]) ELSE s[i]]

CaseMasks(n) ==
    { 1..k : k \in 0..n } \cup { k..n : k \in 1..n } \cup { {k} : k \in 1..n }

CaseVariants(s) == { LowerAt(s, mask) : mask \in CaseMasks(Len(s)) }

\* s with every character from written as the character to
Respelt(s, from, to) == [i \in 1..Len(s) |-> IF s[i] = from THEN to ELSE s[i]]

\* the table keys spelt with a dotless i or a long s
UnicodeVariants(s) ==
    { Respelt(s, "I", DotlessI), Respelt(s, "S", LongS),
      Respelt(LowerAt(s, 1..Len(s)), "i", DotlessI),
      Respelt(Respelt(s, "S", LongS), "I", DotlessI) }

OtherStatuses ==
    { <<"g","a","r","b","a","g","e">>,
      <<"E","X","P","R","E",SharpS>>,
      <<"D","E","L","I","V","E","R","U+00E9">>,
      <<"I","N","U+FB01">>,
      <<"U+FB05">>,
      <<"p","e","n","d","U+00EF","n","g">>,
      <<"U+0149","o","_","f","o","u","n","d">>,
      S_ARRIVED,
      <<" ">>,
      <<"0">>,
      <<"N","O","T","_","F","O","U","N","D">>,
      <<"D","E","L","I","V","E","R","E","D"," ">>,
      <<"I","N"," ","T","R","A","N","S","I","T">>,
      <<"i","n","t","r","a","n","s","i","t">>,
      <<"D","E","L","I","V","E","R">>,
      <<"u","n","k","n","o","w","n">> }

NormInputs ==
    {Undefined, Some(<<>>)}
    \cup { Some(v) : v \in UNION { CaseVariants(k) : k \in DOMAIN statusMap } }
    \cup { Some(v) : v \in UNION { UnicodeVariants(k) : k \in DOMAIN statusMap } }
    \cup { Some(v) : v \in OtherStatuses }

NormalizeCall(status) ==
    /\ normIn' = status
    /\ normOut' = mapTrack123Status(status)
    /\ UNCHANGED <<statVars, appVars, asyncVars, svcVars, now, nextId, resolverVars, repoVars>>

NextNorm == \E status \in NormInputs : NormalizeCall(status)

SpecNorm == Init /\ [][NextNorm]_vars

SameIgnoringCase(a, b) ==
    /\ Len(a) = Len(b)
    /\ \A i \in 1..Len(a) : LowerChar(a[i]) = LowerChar(b[i])

InputIs(key) == IsDefined(normIn) /\ SameIgnoringCase(ValueOf(normIn), key)

InputInTable ==
    \/ InputIs(S_PENDING) \/ InputIs(S_NO_FOUND) \/ InputIs(S_INFO_RECEIVED)
    \/ InputIs(S_IN_TRANSIT) \/ InputIs(S_OUT_FOR_DELIVERY)
    \/ InputIs(S_DELIVERED) \/ InputIs(S_EXCEPTION)
    \/ InputIs(S_FAILED_ATTEMPT) \/ InputIs(S_EXPIRED)

\* C7 (as stated): mapTrack123Status always yields a DeliveryStatus: pending
\* for an absent or empty input, the documented status for each table entry
\* in any letter case, and unknown for every other non-empty string.
C7_NormalizeTotal ==
    normOut # "none"
        => /\ normOut \in DeliveryStatus
           /\ (~IsDefined(normIn) \/ normIn = Some(<<>>)) => normOut = "pending"
           /\ InputIs(S_PENDING) => normOut = "pending"
           /\ InputIs(S_NO_FOUND) => normOut = "pending"
           /\ InputIs(S_INFO_RECEIVED) => normOut = "info_received"
           /\ InputIs(S_IN_TRANSIT) => normOut = "in_transit"
           /\ InputIs(S_OUT_FOR_DELIVERY) => normOut = "out_for_delivery"
           /\ InputIs(S_DELIVERED) => normOut = "delivered"
           /\ InputIs(S_EXCEPTION) => normOut = "exception"
           /\ InputIs(S_FAILED_ATTEMPT) => normOut = "failed_attempt"
           /\ InputIs(S_EXPIRED) => normOut = "expired"
           /\ (IsDefined(normIn) /\ normIn # Some(<<>>) /\ ~InputInTable)
                 => normOut = "unknown"

\* the character c is upper-cased to the ASCII capital k
UpperCasesTo(c, k) ==
    \/ c = k
    \/ c = LowerChar(k)
    \/ k = "I" /\ c = DotlessI
    \/ k = "S" /\ c = LongS

\* the input is the key, each character in either case or in a spelling
\* whose capital is the key's character
InputSpells(key) ==
    /\ IsDefined(normIn)
    /\ Len(ValueOf(normIn)) = Len(key)
    /\ \A i \in 1..Len(key) : UpperCasesTo(ValueOf(normIn)[i], key[i])

\* C7 (amended): mapTrack123Status always yields a DeliveryStatus: pending
\* for an absent or empty input; the documented status for every string
\* that String.prototype.toUpperCase turns into a table entry, which are
\* the entry in any letter case and its spellings with a dotless i (U+0131)
\* for I or a long s (U+017F) for S; unknown for every other non-empty
\* string.
C7_NormalizeByUpperCase ==
    normOut # "none"
        => /\ normOut \in DeliveryStatus
           /\ (~IsDefined(normIn) \/ normIn = Some(<<>>)) => normOut = "pending"
           /\ \A key \in DOMAIN statusMap :
                 InputSpells(key) => normOut = statusMap[key]
           /\ (IsDefined(normIn) /\ normIn # Some(<<>>)
                 /\ \A key \in DOMAIN statusMap : ~InputSpells(key))
                 => normOut = "unknown"

\* 'in_transit' spelt with two dotless i was given and is in_transit
C7_Witness ==
    /\ normIn = Some(<<DotlessI,"n","_","t","r","a","n","s",DotlessI,"t">>)
    /\ normOut = "in_transit"

----------------------------------------------------------------------------
(* LocalStorageService: JSON.stringify on persist, rehydrateTracking on read *)

JsonDate(n) == [k |-> "iso", ms |-> n]
JsonNull == [k |-> "null", ms |-> 0]

\* Date.prototype.toJSON: the ISO string, or null for an Invalid Date
toJSON(d) == IF d.k = "invalid" THEN JsonNull ELSE JsonDate(d.ms)

\* new Date(j) of a parsed JSON value: new Date(null) is the epoch
DateOfJSON(j) == IF j.k = "null" THEN Date(0) ELSE Date(j.ms)

\* JSON.stringify of one Tracking; a key whose value is undefined is left out
stringifyTracking(t) ==
    [id |-> t.id,
     trackingNumber |-> t.trackingNumber,
     nickname |-> t.nickname,
     carrier |-> t.carrier,
     status |-> t.status,
     events |-> [i \in 1..Len(t.events) |->
                   [timestamp |-> toJSON(t.events[i].timestamp),
                    location |-> t.events[i].location,
                    description |-> t.events[i].description,
                    status |-> t.events[i].status]],
     estimatedDelivery |-> IF IsDefined(t.estimatedDelivery)
                           THEN Some(toJSON(ValueOf(t.estimatedDelivery)))
                           ELSE Undefined,
     transitDays |-> t.transitDays,
     createdAt |-> toJSON(t.createdAt),
     updatedAt |-> toJSON(t.updatedAt)]

\* the result has no transitDays key
rehydrateTracking(data) ==
    [id |-> data.id,
     trackingNumber |-> data.trackingNumber,
     nickname |-> data.nickname,
     carrier |-> data.carrier,
     status |-> data.status,
     events |-> [i \in 1..Len(data.events) |->
                   [timestamp |-> DateOfJSON(data.events[i].timestamp),
                    location |-> data.events[i].location,
                    description |-> data.events[i].description,
                    status |-> data.events[i].status]],
     estimatedDelivery |-> IF IsDefined(data.estimatedDelivery)
                              /\ ValueOf(data.estimatedDelivery).k # "null"
                           THEN Some(DateOfJSON(ValueOf(data.estimatedDelivery)))
                           ELSE Undefined,
     transitDays |-> Undefined,
     createdAt |-> DateOfJSON(data.createdAt),
     updatedAt |-> DateOfJSON(data.updatedAt)]

\* LocalStorageService.getTrackings on the item value item
LocalStorage_getTrackings(item) ==
    IF ~IsDefined(item) THEN <<>>
    ELSE [i \in 1..Len(ValueOf(item)) |-> rehydrateTracking(ValueOf(item)[i])]

persist(list) == Some([i \in 1..Len(list) |-> stringifyTracking(list[i])])

\* Array.prototype.findIndex, positions counted from 1 and 0 for "not found"
FirstIndex(S) == IF S = {} THEN 0 ELSE CHOOSE i \in S : \A j \in S : i <= j

IndexOfNumber(list, trackingNumber) ==
    FirstIndex({i \in 1..Len(list) : list[i].trackingNumber = trackingNumber})

IndexOfId(list, id) == FirstIndex({i \in 1..Len(list) : list[i].id = id})

\* saveTracking, lines 36-46: replace at existingIndex or push
UpsertAlwaysPush(list, tracking) == Append(list, tracking)

Upsert(list, tracking) ==
    LET existingIndex == IndexOfNumber(list, tracking.trackingNumber)
    IN IF existingIndex > 0
       THEN [list EXCEPT ![existingIndex] = tracking]
       ELSE Append(list, tracking)

\* updateTracking, lines 78-84: throw when the id is not found, else replace
ReplaceByIdOrPush(list, tracking) ==
    LET index == IndexOfId(list, tracking.id)
    IN IF index = 0
       THEN Returned(Append(list, tracking))
       ELSE Returned([list EXCEPT ![index] = tracking])

ReplaceById(list, tracking) ==
    LET index == IndexOfId(list, tracking.id)
    IN IF index = 0
       THEN Threw("Tracking not found: " \o ToString(tracking.id))
       ELSE Returned([list EXCEPT ![index] = tracking])

Op(op, threw, index) == [op |-> op, threw |-> threw, index |-> index]

MaxStore == 2
MaxPending == 2

\* Each mutating method reads the item when it is called (getTrackings runs
\* to its end before the await returns to the caller) and writes after the
\* await; the await is on a fulfilled promise, so the suspended calls go on
\* in the order they were made.  pending holds the suspended calls.

\* a call of saveTracking(tracking), updateTracking(tracking) or
\* deleteTracking(id)
RepoCallOf(op, tracking, id) == [op |-> op, tracking |-> tracking, id |-> id]

\* what the method makes of the collection it read: the collection to
\* persist, or the error thrown
Written(call, list) ==
    IF call.op = "save"
    THEN Returned(Upsert(list, ValueOf(call.tracking)))
    ELSE IF call.op = "update"
    THEN ReplaceById(list, ValueOf(call.tracking))
    ELSE Returned(SelectSeq(list, LAMBDA t : t.id # call.id))

\* const trackings = await this.getTrackings(): what the method works on
\* after the await is what it read when it was called
TrackingsAfterAwaitFresh(suspended, item) == LocalStorage_getTrackings(item)

TrackingsAfterAwait(suspended, item) == suspended.trackings

\* the method up to its await
RepoCall(call) ==
    /\ Len(pending) < MaxPending
    /\ LET r == Written(call, LocalStorage_getTrackings(storage))
       IN ~r.threw => Len(r.value) <= MaxStore
    /\ pending' = Append(pending,
                         [call |-> call,
                          trackings |-> LocalStorage_getTrackings(storage)])
    /\ UNCHANGED <<statVars, appVars, svcVars, wrote, now, nextId, normVars,
                   resolverVars, repoVars>>

saveTracking(tracking) ==
    RepoCall(RepoCallOf("save", Some(tracking), tracking.id))

updateTracking(tracking) ==
    RepoCall(RepoCallOf("update", Some(tracking), tracking.id))

deleteTracking(id) == RepoCall(RepoCallOf("delete", Undefined, id))

\* the tracking numbers of a list, and its records as (id, number) pairs
NumbersOf(list) == { list[i].trackingNumber : i \in 1..Len(list) }
KeysOf(list) ==
    { [id |-> list[i].id, trackingNumber |-> list[i].trackingNumber] :
         i \in 1..Len(list) }

\* the method that was suspended first, from its await to its end; when the
\* item is not what the method read, wrote keeps what the item had gained
\* and lost since; aOp is kept while the item stays as it is
RepoResume ==
    /\ Len(pending) > 0
    /\ pending[1].call.op \in {"save", "update", "delete"}
    /\ LET call == pending[1].call
           list == TrackingsAfterAwait(pending[1], storage)
           r == Written(call, list)
           index == IF call.op = "save"
                    THEN IndexOfNumber(list,
                             ValueOf(call.tracking).trackingNumber)
                    ELSE IndexOfId(list, call.id)
           current == LocalStorage_getTrackings(storage)
           gained == NumbersOf(current) \ NumbersOf(pending[1].trackings)
           lost == KeysOf(pending[1].trackings) \ KeysOf(current)
       IN /\ storage' = IF r.threw THEN storage ELSE persist(r.value)
          /\ lastOp' = Op(call.op, r.threw, index)
          /\ wrote' = IF gained = {} /\ lost = {}
                      THEN NoWrite
                      ELSE [op |-> call.op, threw |-> r.threw, id |-> call.id,
                            number |-> IF IsDefined(call.tracking)
                                       THEN Some(ValueOf(call.tracking)
                                                     .trackingNumber)
                                       ELSE Undefined,
                            gained |-> gained, lost |-> lost]
    /\ pending' = Tail(pending)
    /\ aOp' = IF storage' = storage THEN aOp ELSE NoCall
    /\ UNCHANGED <<saved, appVars, svcVars, now, nextId, normVars,
                   resolverVars>>

----------------------------------------------------------------------------
(* The repository driven by a caller that awaits every call, as the App    *)
(* handlers do: a method is called when no call is suspended.              *)

MaxRepoId == 2

RepoIds == 1..MaxRepoId

\* gateway items whose Trackings are handed to the repository
RepoContents ==
    { Content("TN1", ProfileFull), Content("TN1", ProfileBare),
      Content("TN2", ProfileFull) }

\* the Trackings a caller can hold: results of mapToTracking under any
\* identifier (handleRefresh puts the stored id on a fresh result)
RepoTrackings ==
    { mapToTracking(c, id, Date(now)) : c \in RepoContents, id \in RepoIds }


\* every call made so far has returned
NoneSuspended == pending = <<>>

NextRepo ==
    \/ \E t \in RepoTrackings : NoneSuspended /\ saveTracking(t)
    \/ \E t \in RepoTrackings : NoneSuspended /\ updateTracking(t)
    \/ \E id \in RepoIds : NoneSuspended /\ deleteTracking(id)
    \/ RepoResume

SpecRepo == Init /\ [][NextRepo]_vars

\* the records getTrackings returns
Stored == LocalStorage_getTrackings(storage)

\* what a read returns for a record that was written
AsStored(t) == rehydrateTracking(stringifyTracking(t))

\* C8: no two stored Trackings have the same trackingNumber.
C8_UniqueTrackingNumber ==
    \A i, j \in 1..Len(Stored) :
        Stored[i].trackingNumber = Stored[j].trackingNumber => i = j

\* the step is a suspended call of the method op going on to its end
Resumes(op) ==
    /\ Len(pending) > 0
    /\ pending[1].call.op = op
    /\ RepoResume

\* the Tracking that call was given, and the records that were stored when
\* it was made
ResumedTracking == ValueOf(pending[1].call.tracking)
StoredAtCall == pending[1].trackings

SavePost(t) ==
    LET before == StoredAtCall
        after == LocalStorage_getTrackings(storage')
        same == {i \in 1..Len(before) : before[i].trackingNumber = t.trackingNumber}
    IN IF same # {}
       THEN LET k == CHOOSE i \in same : \A j \in same : i <= j
            IN /\ Len(after) = Len(before)
               /\ after[k] = AsStored(t)
               /\ \A j \in 1..Len(before) : j # k => after[j] = before[j]
       ELSE /\ Len(after) = Len(before) + 1
            /\ after[Len(after)] = AsStored(t)
            /\ \A j \in 1..Len(before) : after[j] = before[j]

\* C9: saveTracking is an upsert by trackingNumber: when a record with the
\* same trackingNumber is stored at the call, the (first) such record is
\* replaced at its position and the number of records is unchanged;
\* otherwise the record is appended at the end; every other record that
\* getTrackings returned at the call, and the order of the records, is
\* unchanged when the call returns.
C9_SaveIsUpsert ==
    [][Resumes("save") => SavePost(ResumedTracking)]_vars

C9_Witness ==
    /\ lastOp.op = "save"
    /\ lastOp.index = 1
    /\ Len(Stored) = 2
    /\ Stored[1].trackingNumber = "TN2"
    /\ Stored[2].trackingNumber = "TN1"
    /\ NoneSuspended

UpdatePost(t) ==
    LET before == StoredAtCall
        after == LocalStorage_getTrackings(storage')
        same == {i \in 1..Len(before) : before[i].id = t.id}
    IN IF same = {}
       THEN /\ lastOp'.threw
            /\ storage' = storage
       ELSE LET k == CHOOSE i \in same : \A j \in same : i <= j
            IN /\ ~lastOp'.threw
               /\ Len(after) = Len(before)
               /\ after[k] = AsStored(t)
               /\ \A j \in 1..Len(before) : j # k => after[j] = before[j]

\* C10: updateTracking of a Tracking whose id is not stored at the call
\* throws and leaves the storage item unchanged; updateTracking of a stored
\* id replaces the (first) record with that id and leaves every other
\* record and the number of records unchanged.
C10_UpdateById ==
    [][Resumes("update") => UpdatePost(ResumedTracking)]_vars

C10_Witness ==
    /\ lastOp.op = "update"
    /\ lastOp.threw
    /\ lastOp.index = 0
    /\ Len(Stored) = 2
    /\ NoneSuspended

----------------------------------------------------------------------------
(* Round trip through the storage item, and the order of stored events *)

\* LocalStorageService.getTrackingById: the first record with that id, or null
getTrackingById(item, id) ==
    LET list == LocalStorage_getTrackings(item)
        index == IndexOfId(list, id)
    IN IF index = 0 THEN Undefined ELSE Some(list[index])

\* C11: a Tracking that was saved and is read back, by getTrackings or by
\* getTrackingById, equals the saved Tracking field for field (transitDays,
\* estimatedDelivery, carrier and every event timestamp included).
C11_RoundTrip ==
    [][Resumes("save")
          => LET t == ResumedTracking
                 after == LocalStorage_getTrackings(storage')
                 k == IndexOfNumber(after, t.trackingNumber)
             IN /\ k > 0
                /\ after[k] = t
                /\ (IndexOfId(after, t.id) = k
                      => getTrackingById(storage', t.id) = Some(t))]_vars

\* s is an initial segment of t
IsPrefix(s, t) ==
    /\ Len(s) <= Len(t)
    /\ \A i \in 1..Len(s) : s[i] = t[i]

\* C19: the events of the Tracking stored for a tracking number only grow:
\* whenever saveTracking (re-track) or updateTracking (refresh) changes
\* them, the events stored before are a prefix of the events stored after.
C19_EventsAppendOnly ==
    [][(Resumes("save") \/ Resumes("update"))
          => LET before == LocalStorage_getTrackings(storage)
                 after == LocalStorage_getTrackings(storage')
             IN \A n \in TrackNos :
                   LET kb == IndexOfNumber(before, n)
                       ka == IndexOfNumber(after, n)
                   IN (kb > 0 /\ ka > 0)
                         => IsPrefix(before[kb].events, after[ka].events)]_vars

\* Date.prototype.getTime: the time of a valid Date, NaN of an Invalid Date
NaN == "NaN"
getTime(d) == IF d.k = "invalid" THEN NaN ELSE d.ms

\* TrackingCard: tracking.events[tracking.events.length - 1]
latestEvent(tracking) ==
    IF Len(tracking.events) = 0 THEN Undefined
    ELSE Some(tracking.events[Len(tracking.events)])

\* (a, b) => b.timestamp.getTime() - a.timestamp.getTime(): NaN when one of
\* the two is an Invalid Date
NewestFirst(a, b) ==
    IF a.timestamp.k = "invalid" \/ b.timestamp.k = "invalid" THEN NaN
    ELSE getTime(b.timestamp) - getTime(a.timestamp)

\* the comparator as Array.prototype.sort reads it: a NaN counts as 0.
\* With an Invalid Date among the events the comparator is not a consistent
\* order and ECMAScript leaves the result to the engine; the definitions
\* below are V8's sort (binary insertion into the initial run), for the
\* arrays of fewer than 64 elements, which it sorts as one run.
CallCompare(a, b) ==
    IF a.timestamp.k = "invalid" \/ b.timestamp.k = "invalid" THEN 0
    ELSE NewestFirst(a, b)

\* the initial run: V8 takes it as descending when the second element
\* compares below the first, and ends it at the first element that breaks
\* the direction
RunIsDescending(events) == CallCompare(events[2], events[1]) < 0

RunLength(events) ==
    IF Len(events) < 2 THEN Len(events)
    ELSE LET breaks == {i \in 3..Len(events) :
                           IF RunIsDescending(events)
                           THEN CallCompare(events[i], events[i - 1]) >= 0
                           ELSE CallCompare(events[i], events[i - 1]) < 0}
         IN IF breaks = {} THEN Len(events) ELSE FirstIndex(breaks) - 1

\* the initial run in sorted order: a descending run is reversed
InitialRun(events) ==
    LET n == RunLength(events)
    IN IF n >= 2 /\ RunIsDescending(events)
       THEN [i \in 1..n |-> events[n + 1 - i]]
       ELSE SubSeq(events, 1, n)

\* the binary search of the insertion: the place of e among
\* sorted[left..right-1]
RECURSIVE InsertionPoint(_, _, _, _)
InsertionPoint(sorted, e, left, right) ==
    IF left >= right THEN left
    ELSE LET mid == left + ((right - left) \div 2)
         IN IF CallCompare(e, sorted[mid]) < 0
            THEN InsertionPoint(sorted, e, left, mid)
            ELSE InsertionPoint(sorted, e, mid + 1, right)

\* one insertion: e, the element behind the sorted part, goes to the place
\* the binary search finds
InsertNewestFirst(sorted, e) ==
    LET at == InsertionPoint(sorted, e, 1, Len(sorted) + 1)
    IN SubSeq(sorted, 1, at - 1) \o <<e>> \o SubSeq(sorted, at, Len(sorted))

\* the array when its first n elements are sorted
RECURSIVE SortNewestFirst(_, _)
SortNewestFirst(events, n) ==
    IF n <= RunLength(events) THEN InitialRun(events)
    ELSE InsertNewestFirst(SortNewestFirst(events, n - 1), events[n])

\* Timeline: [...events].sort(newest first)
sortedEvents(events) == SortNewestFirst(events, Len(events))

\* C20: the events of every stored Tracking are ordered most-recent-last:
\* the event TrackingCard shows as the latest update has the greatest
\* timestamp and is the first event of Timeline's newest-first ordering.
C20_LatestEventIsNewest ==
    \A i \in 1..Len(Stored) :
        LET events == Stored[i].events
        IN Len(events) > 0
             => /\ \A j \in 1..(Len(events) - 1) :
                      getTime(events[j].timestamp) <= getTime(events[j + 1].timestamp)
                /\ \A j \in 1..Len(events) :
                      getTime(events[j].timestamp)
                          <= getTime(ValueOf(latestEvent(Stored[i])).timestamp)
                /\ ValueOf(latestEvent(Stored[i])) = sortedEvents(events)[1]

----------------------------------------------------------------------------
(* The repository under a running clock: updatedAt *)

\* domain updateTracking: { ...tracking, ...updates, updatedAt: new Date() }
Domain_updateTracking(tracking, updates, date) ==
    [f \in DOMAIN tracking |->
        IF f = "updatedAt" THEN date
        ELSE IF f \in DOMAIN updates THEN updates[f]
        ELSE tracking[f]]

\* the Trackings a caller can hold at time now: results of mapToTracking
\* made now or earlier
HeldTrackings ==
    { mapToTracking(c, id, Date(n)) :
          c \in RepoContents, id \in RepoIds, n \in 0..now }

NextRepoClock ==
    \/ \E t \in HeldTrackings : NoneSuspended /\ saveTracking(t)
    \/ \E t \in HeldTrackings : NoneSuspended /\ updateTracking(t)
    \/ \E id \in RepoIds : NoneSuspended /\ deleteTracking(id)
    \/ RepoResume
    \/ Tick

SpecRepoClock == Init /\ [][NextRepoClock]_vars

\* the stored record at position k carries the time of the step and is not
\* older than the record it replaces
Refreshed(before, after, k) ==
    /\ after[k].updatedAt = Date(now)
    /\ getTime(after[k].updatedAt) >= getTime(before[k].updatedAt)

\* C12: every mutation of a stored Tracking refreshes its updatedAt: after
\* saveTracking over a stored trackingNumber, after updateTracking, and
\* after the domain's updateTracking, the Tracking's updatedAt is the time
\* of the mutation and is not earlier than its previous updatedAt.
C12_UpdatedAtRefreshed ==
    [][LET before == LocalStorage_getTrackings(storage)
           after == LocalStorage_getTrackings(storage')
           kn == IndexOfNumber(before, ResumedTracking.trackingNumber)
           ki == IndexOfId(before, ResumedTracking.id)
       IN /\ (Resumes("save") /\ kn > 0) => Refreshed(before, after, kn)
          /\ (Resumes("update") /\ ki > 0) => Refreshed(before, after, ki)
          /\ \A i \in 1..Len(before) :
                   Domain_updateTracking(before[i], [status |-> "delivered"],
                                         Date(now)).updatedAt = Date(now)]_vars

----------------------------------------------------------------------------
(* AnalyticsService: getMonthlyStats and getCourierDistribution.  One unit *)
(* of the clock is one calendar month, counted from January 1970.          *)

EpochYear == 1970
MonthsPerYear == 12

getFullYear(d) == EpochYear + (d.ms \div MonthsPerYear)

\* Date.prototype.getMonth: 0 for January
getMonth(d) == d.ms % MonthsPerYear

\* String(n).padStart(2, '0') of a month number
padStart2(n) == IF n < 10 THEN "0" \o ToString(n) ELSE ToString(n)

formatMonth(date) ==
    ToString(getFullYear(date)) \o "-" \o padStart2(getMonth(date) + 1)

\* formatMonth(new Date()) when the clock shows date
getCurrentMonth(date) == formatMonth(date)

InTransitStatuses == {"in_transit", "out_for_delivery"}

\* getMonthlyStats with inTransit counting 'in_transit' only
getMonthlyStatsInTransitOnly(list, month, date) ==
    LET targetMonth == OrElse(month, getCurrentMonth(date))
        monthlyTrackings ==
            SelectSeq(list, LAMBDA t : formatMonth(t.createdAt) = targetMonth)
    IN [month |-> targetMonth,
        totalPackages |-> Len(monthlyTrackings),
        delivered |-> Len(SelectSeq(monthlyTrackings,
                                     LAMBDA t : t.status = "delivered")),
        inTransit |-> Len(SelectSeq(monthlyTrackings,
                                     LAMBDA t : t.status = "in_transit"))]

\* getMonthlyStats that always reports the current month
getMonthlyStatsCurrentOnly(list, month, date) ==
    LET targetMonth == getCurrentMonth(date)
        monthlyTrackings ==
            SelectSeq(list, LAMBDA t : formatMonth(t.createdAt) = targetMonth)
    IN [month |-> targetMonth,
        totalPackages |-> Len(monthlyTrackings),
        delivered |-> Len(SelectSeq(monthlyTrackings,
                                     LAMBDA t : t.status = "delivered")),
        inTransit |-> Len(SelectSeq(monthlyTrackings,
                                     LAMBDA t : t.status \in InTransitStatuses))]

\* getMonthlyStats(month) on the list getTrackings returned, the clock
\* showing date; month is optional
getMonthlyStats(list, month, date) ==
    LET targetMonth == OrElse(month, getCurrentMonth(date))
        monthlyTrackings ==
            SelectSeq(list, LAMBDA t : formatMonth(t.createdAt) = targetMonth)
    IN [month |-> targetMonth,
        totalPackages |-> Len(monthlyTrackings),
        delivered |-> Len(SelectSeq(monthlyTrackings,
                                     LAMBDA t : t.status = "delivered")),
        inTransit |-> Len(SelectSeq(monthlyTrackings,
                                     LAMBDA t : t.status \in InTransitStatuses))]

\* Math.round(num / den) for num >= 0 and den > 0
MathRound(num, den) == (2 * num + den) \div (2 * den)

\* A Number is an IEEE-754 double: a quotient or a product is the exact
\* value rounded to the nearest number with 53 significant bits.
MantissaBits == 52

RECURSIVE Pow2(_)
Pow2(e) == IF e = 0 THEN 1 ELSE 2 * Pow2(e - 1)

\* 2^e modulo m, computed without forming 2^e
RECURSIVE Pow2Mod(_, _)
Pow2Mod(e, m) == IF e = 0 THEN 1 % m ELSE (2 * Pow2Mod(e - 1, m)) % m

\* the position of the leading bit of n >= 1
RECURSIVE Log2(_)
Log2(n) == IF n < 2 THEN 0 ELSE 1 + Log2(n \div 2)

\* the j with 1 <= (count / total) * 2^j < 2, for 1 <= count <= total
QuotientShift(count, total) ==
    CHOOSE j \in 0..(Log2(total) + 1) :
        /\ count * Pow2(j) >= total
        /\ j > 0 => count * Pow2(j - 1) < total

\* count / total in floating point minus the exact quotient, in units of
\* 1 / (total * 2^(MantissaBits + j)): the quotient is rounded to the
\* nearest multiple of 2^-(MantissaBits + j)
DivisionError(count, total) ==
    LET j == QuotientShift(count, total)
        r == ((count % total) * Pow2Mod(MantissaBits + j, total)) % total
    IN IF 2 * r > total THEN total - r ELSE 0 - r

\* count * 100 / total is exactly a half-integer h, and (count / total) *
\* 100 in floating point is a number below h: the product of the rounded
\* quotient by 100 is rounded to the nearest multiple of 2^(i - 53), where
\* 2^(i - 1) <= h < 2^i (of 2^(i - 54) below h = 1/2, a power of two), and
\* exactly between two of them to h, whose last bit is 0
ProductFallsShort(count, total) ==
    /\ (200 * count) % total = 0
    /\ ((200 * count) \div total) % 2 = 1
    /\ LET twice == (200 * count) \div total
           i == Log2(twice)
           j == QuotientShift(count, total)
           below == 0 - DivisionError(count, total)
           spacing == total * Pow2(i + j - 1)
       IN IF twice = 1 THEN 400 * below > spacing ELSE 200 * below > spacing

\* Math.round((count / total) * 100), for 1 <= count <= total: Math.round
\* rounds a half upwards, and the floating-point product differs from
\* count * 100 / total by less than the distance of any other quotient of
\* these integers to a half
Percentage(count, total) ==
    IF ProductFallsShort(count, total)
    THEN MathRound(count * 100, total) - 1
    ELSE MathRound(count * 100, total)

\* one turn of the loop over trackings: the entry of the carrier code is
\* created at the end of the Map or updated in place
Tally(counts, tracking) ==
    LET code == tracking.carrier.code
        existing == FirstIndex({i \in 1..Len(counts) : counts[i].code = code})
        transitDays == IF IsDefined(tracking.transitDays)
                       THEN ValueOf(tracking.transitDays) ELSE 0
        isDelivered == tracking.status = "delivered"
        counted == isDelivered /\ transitDays > 0
    IN IF existing > 0
       THEN [counts EXCEPT
               ![existing] =
                   [@ EXCEPT !.count = @ + 1,
                             !.totalTransitDays =
                                 IF counted THEN @ + transitDays ELSE @,
                             !.deliveredCount =
                                 IF counted THEN @ + 1 ELSE @]]
       ELSE Append(counts,
                   [code |-> code,
                    name |-> tracking.carrier.name,
                    count |-> 1,
                    totalTransitDays |-> IF counted THEN transitDays ELSE 0,
                    deliveredCount |-> IF counted THEN 1 ELSE 0])

\* the loop over trackings[lo..hi], entered with the Map counts: the range
\* is walked in order, first half then second half.  The Map never has more
\* entries than there are trackings; reading its size first makes the
\* turns be computed in the order of the loop.
RECURSIVE TallyRange(_, _, _, _)
TallyRange(counts, list, lo, hi) ==
    IF lo > hi \/ Len(counts) > Len(list) THEN counts
    ELSE IF lo = hi THEN Tally(counts, list[lo])
    ELSE LET mid == (lo + hi) \div 2
         IN TallyRange(TallyRange(counts, list, lo, mid), list, mid + 1, hi)

\* Array.from(counts.entries()).map(...)
Distribution(list) ==
    LET counts == TallyRange(<<>>, list, 1, Len(list))
        total == Len(list)
    IN [k \in 1..Len(counts) |->
          [carrierCode |-> counts[k].code,
           carrierName |-> counts[k].name,
           count |-> counts[k].count,
           percentage |-> Percentage(counts[k].count, total),
           avgTransitDays |->
               IF counts[k].deliveredCount > 0
               THEN Some(MathRound(counts[k].totalTransitDays,
                                   counts[k].deliveredCount))
               ELSE Undefined]]

\* getCourierDistribution that answers an empty snapshot with a placeholder
getCourierDistributionPlaceholder(list) ==
    IF Len(list) = 0
    THEN << [carrierCode |-> "unknown", carrierName |-> "Unknown",
             count |-> 0, percentage |-> 0, avgTransitDays |-> Undefined] >>
    ELSE Distribution(list)

\* getCourierDistribution on the list getTrackings returned
getCourierDistribution(list) ==
    IF Len(list) = 0 THEN <<>> ELSE Distribution(list)

----------------------------------------------------------------------------
(* The analytics calls on stored snapshots *)

MaxSnap == 2
LargeStore == 201

StatProfile(status, days, code, name) ==
    [transitStatus |-> Some(status), transitDays |-> days,
     localLogisticsInfo |->
         Some([courierCode |-> code, courierNameEN |-> name,
               trackingDetails |-> Undefined])]

KerryDelivered2 == StatProfile(S_DELIVERED, Some(2), "kerry", "Kerry Express")
KerryDelivered4 == StatProfile(S_DELIVERED, Some(4), "kerry", "Kerry Express")
FlashInTransit == StatProfile(S_IN_TRANSIT, Some(0), "flash", "Flash Express")
FlashOutForDelivery ==
    StatProfile(S_OUT_FOR_DELIVERY, Undefined, "flash", "Flash Express")
JtPending == StatProfile(S_PENDING, Undefined, "jt", "J&T Express")

\* the profiles of the short histories
StatProfiles == {KerryDelivered2, FlashInTransit}

\* what was tracked, in the order of the saves: the gateway profile of each
\* tracking number and the time its Tracking was created
Tracked(profile, created) == [profile |-> profile, created |-> created]

\* the times of creation never decrease along the saves
InOrder(seq) ==
    \A i \in 1..(Len(seq) - 1) : seq[i].created <= seq[i + 1].created

\* the short histories: Trackings created at the first or at the last time
\* of the clock
SmallHistories ==
    { h \in UNION { [1..n -> { Tracked(p, c) : p \in StatProfiles,
                                               c \in {0, MaxTime} }] :
                    n \in 0..MaxSnap } : InOrder(h) }

\* the examples of the analytics contract: three Trackings of two carriers,
\* and four Trackings of one month, one per counted status
CourierExample ==
    << Tracked(KerryDelivered2, 0), Tracked(KerryDelivered4, 0),
       Tracked(FlashInTransit, 0) >>
MonthlyExample ==
    << Tracked(KerryDelivered2, 0), Tracked(FlashInTransit, 0),
       Tracked(FlashOutForDelivery, 0), Tracked(JtPending, 0) >>

\* a long history: one carrier for all Trackings but the last
LargeHistory ==
    [i \in 1..LargeStore |->
        IF i < LargeStore THEN Tracked(KerryDelivered2, 0)
        ELSE Tracked(FlashInTransit, 0)]

\* forty Trackings, twenty-three of them of one carrier: 57.5 percent
HalfHistory ==
    [i \in 1..40 |->
        IF i <= 23 THEN Tracked(KerryDelivered2, 0)
        ELSE Tracked(FlashInTransit, 0)]

Histories ==
    SmallHistories
    \cup {CourierExample, MonthlyExample, LargeHistory, HalfHistory}

\* the i-th Tracking of a history, as mapToTracking built it
TrackingOf(h, i) ==
    mapToTracking(Content("TN" \o ToString(i), h[i].profile), i,
                  Date(h[i].created))

TrackingsOf(h) == [i \in 1..Len(h) |-> TrackingOf(h, i)]

\* the storage item after the Trackings of list were saved one by one
\* the storage item after the Trackings of list, all of different tracking
\* numbers, were saved one by one: every save appends its Tracking to the
\* records it read back, so every record but the last was read and
\* rewritten
ItemAfterSaves(list) ==
    IF Len(list) = 0 THEN Undefined
    ELSE persist([i \in 1..Len(list) |->
                    IF i < Len(list) THEN AsStored(list[i]) ELSE list[i]])

\* Both analytics methods read the Trackings when they are called and go
\* on after the await, in the order of the suspended calls; getMonthlyStats
\* reads the clock only then.

\* a call of getMonthlyStats(month) or getCourierDistribution()
AnalyticsCallOf(op, month) == [op |-> op, month |-> month]

\* the method up to its await: const trackings = await
\* this.storage.getTrackings()
AnalyticsCall(call) ==
    /\ Len(pending) < MaxPending
    /\ pending' = Append(pending,
                         [call |-> call,
                          snap |-> storage,
                          trackings |-> LocalStorage_getTrackings(storage)])
    /\ UNCHANGED <<statVars, appVars, svcVars, wrote, now, nextId, normVars,
                   resolverVars, repoVars>>

MonthlyStatsCall(month) == AnalyticsCall(AnalyticsCallOf("monthly", month))

CourierDistributionCall ==
    AnalyticsCall(AnalyticsCallOf("courier", Undefined))

\* the record of a returned call: its result, the time it returned, the
\* item it had read, and whether it repeats the call returned before it on
\* the same item
Call(suspended, out) ==
    LET again == /\ aOp.op = suspended.call.op
                 /\ aOp.month = suspended.call.month
                 /\ aOp.snap = suspended.snap
    IN [op |-> suspended.call.op, month |-> suspended.call.month,
        at |-> now, snap |-> suspended.snap,
        out |-> out, again |-> again,
        prevAt |-> IF again THEN aOp.at ELSE now,
        prevOut |-> IF again THEN aOp.out ELSE out]

\* the method that was suspended first, from its await to its end
AnalyticsResume(op, out) ==
    /\ Len(pending) > 0
    /\ pending[1].call.op = op
    /\ aOp' = Call(pending[1], out)
    /\ pending' = Tail(pending)
    /\ UNCHANGED <<saved, appVars, svcVars, wrote, now, nextId, normVars,
                   resolverVars, repoVars>>

\* getMonthlyStats after its await: the current month is read here
MonthlyStatsResume ==
    /\ Len(pending) > 0
    /\ pending[1].call.op = "monthly"
    /\ AnalyticsResume("monthly",
                       getMonthlyStats(pending[1].trackings,
                                       pending[1].call.month, Date(now)))

CourierDistributionResume ==
    /\ Len(pending) > 0
    /\ pending[1].call.op = "courier"
    /\ AnalyticsResume("courier", getCourierDistribution(pending[1].trackings))

\* the optional month argument: absent, or the month of some time
MonthArgs == {Undefined} \cup { Some(formatMonth(Date(n))) : n \in 0..MaxTime }

InitStats ==
    /\ \E h \in Histories :
          /\ saved = TrackingsOf(h)
          /\ storage = ItemAfterSaves(TrackingsOf(h))
          /\ now = IF Len(h) = 0 THEN 0 ELSE h[Len(h)].created
    /\ nextId = 1
    /\ normIn = Undefined
    /\ normOut = "none"
    /\ rpc = "idle"
    /\ rtn = "TN1"
    /\ rnick = Undefined
    /\ trackings = <<>>
    /\ calls = <<>>
    /\ responses = <<>>
    /\ result = Pending
    /\ lastOp = [op |-> "none", threw |-> FALSE, index |-> 0]
    /\ aOp = NoCall
    /\ tpc = [p \in Runs |-> "idle"]
    /\ targ = [p \in Runs |-> "TN1"]
    /\ isLoading = FALSE
    /\ error = Undefined
    /\ currentPage = "home"
    /\ appTrackings = <<>>
    /\ batch = NoBatch
    /\ tref = [p \in Runs |-> Undefined]
    /\ pending = <<>>
    /\ wrote = NoWrite
    /\ apiKey = Some("secret")
    /\ service = createTrackingService(apiKey)

\* no analytics call is suspended
NoAnalyticsSuspendedAmong(queue) ==
    \A i \in 1..Len(queue) :
        queue[i].call.op \in {"save", "update", "delete"}

NoAnalyticsSuspended == NoAnalyticsSuspendedAmong(pending)

\* Dashboard loadAnalytics: getMonthlyStats() and getCourierDistribution()
\* are called one after the other, before either goes on
LoadingAnalytics ==
    /\ Len(pending) > 0
    /\ pending[Len(pending)].call = AnalyticsCallOf("monthly", Undefined)
    /\ NoAnalyticsSuspendedAmong(SubSeq(pending, 1, Len(pending) - 1))

\* An analytics method is called while no other one is suspended, or as
\* the second call of loadAnalytics; a deleteTracking is called while
\* nothing is suspended: it can be suspended when an analytics method
\* reads, and write before that method goes on.
NextStats ==
    \/ \E month \in MonthArgs : NoAnalyticsSuspended /\ MonthlyStatsCall(month)
    \/ (NoAnalyticsSuspended \/ LoadingAnalytics) /\ CourierDistributionCall
    \/ MonthlyStatsResume
    \/ CourierDistributionResume
    \/ \E id \in RepoIds : NoneSuspended /\ deleteTracking(id)
    \/ RepoResume
    \/ Tick

SpecStats == InitStats /\ [][NextStats]_vars

----------------------------------------------------------------------------
(* Properties of the analytics calls *)

\* the snapshot the last analytics call read
Snapshot == LocalStorage_getTrackings(aOp.snap)

\* the month the last getMonthlyStats call was about: its argument, or
\* the month of the clock when it went on after its await
TargetMonth ==
    IF IsDefined(aOp.month) THEN ValueOf(aOp.month)
    ELSE formatMonth(Date(aOp.at))

\* the positions of the snapshot whose createdAt lies in the calendar year
\* and month that the string m names
InMonth(m) ==
    {i \in 1..Len(Snapshot) :
        \E n \in 0..MaxTime :
            /\ formatMonth(Date(n)) = m
            /\ getFullYear(Snapshot[i].createdAt) = getFullYear(Date(n))
            /\ getMonth(Snapshot[i].createdAt) = getMonth(Date(n))}

WithStatus(S, statuses) == {i \in S : Snapshot[i].status \in statuses}

\* C13: getMonthlyStats reports month = the target month (the argument,
\* or the current month when there is none), totalPackages = the number of
\* Trackings created in that calendar year and month, delivered = those of
\* them with status delivered, inTransit = those with status in_transit or
\* out_for_delivery; so delivered + inTransit <= totalPackages, and four
\* Trackings of the month with statuses delivered, in_transit,
\* out_for_delivery and pending give 4, 1 and 2.
C13_MonthlyStats ==
    aOp.op = "monthly"
        => LET S == InMonth(TargetMonth)
           IN /\ aOp.out.month = TargetMonth
              /\ aOp.out.totalPackages = Cardinality(S)
              /\ aOp.out.delivered = Cardinality(WithStatus(S, {"delivered"}))
              /\ aOp.out.inTransit = Cardinality(WithStatus(S, InTransitStatuses))
              /\ aOp.out.delivered + aOp.out.inTransit <= aOp.out.totalPackages
              /\ (/\ Cardinality(S) = 4
                  /\ \A st \in {"delivered", "in_transit", "out_for_delivery",
                                "pending"} :
                        Cardinality(WithStatus(S, {st})) = 1)
                    => /\ aOp.out.totalPackages = 4
                       /\ aOp.out.delivered = 1
                       /\ aOp.out.inTransit = 2

C13_Witness ==
    /\ aOp.op = "monthly"
    /\ aOp.month = Some("1970-01")
    /\ aOp.out = [month |-> "1970-01", totalPackages |-> 4, delivered |-> 1,
                  inTransit |-> 2]

\* C14: getCourierDistribution on an empty snapshot returns the empty list.
C14_EmptyDistribution ==
    (aOp.op = "courier" /\ Len(Snapshot) = 0) => aOp.out = <<>>

C14_Witness ==
    /\ aOp.op = "courier"
    /\ aOp.snap = Undefined
    /\ aOp.out = <<>>

CodeAt(i) == Snapshot[i].carrier.code

FirstOf(code) == FirstIndex({i \in 1..Len(Snapshot) : CodeAt(i) = code})

RECURSIVE SumCount(_, _)
SumCount(out, n) == IF n = 0 THEN 0 ELSE SumCount(out, n - 1) + out[n].count

\* p is num / den rounded to the nearest integer, a half upwards
IsRounded(p, num, den) ==
    /\ 2 * den * p <= 2 * num + den
    /\ 2 * num + den < 2 * den * (p + 1)

\* the entries of out are the carrier codes of the snapshot, once each, in
\* the order of their first occurrence, with their counts and percentages;
\* no percentage is below lowest
IsDistribution(out, lowest) ==
    /\ \A i \in 1..Len(Snapshot) : \E k \in 1..Len(out) : out[k].carrierCode = CodeAt(i)
    /\ \A k \in 1..Len(out) :
          /\ FirstOf(out[k].carrierCode) > 0
          /\ \A j \in 1..(k - 1) :
                FirstOf(out[j].carrierCode) < FirstOf(out[k].carrierCode)
          /\ out[k].count =
                 Cardinality({i \in 1..Len(Snapshot) : CodeAt(i) = out[k].carrierCode})
          /\ IsRounded(out[k].percentage, out[k].count * 100, Len(Snapshot))
          /\ lowest <= out[k].percentage
          /\ out[k].percentage <= 100
    /\ SumCount(out, Len(out)) = Len(Snapshot)

\* C15: getCourierDistribution on a non-empty snapshot returns one entry
\* per distinct carrier code, in the order of first occurrence; the counts
\* add up to the size of the snapshot; each percentage is
\* round(count / total * 100), an integer between 1 and 100.
C15_Distribution ==
    (aOp.op = "courier" /\ Len(Snapshot) > 0) => IsDistribution(aOp.out, 1)

\* the saved Trackings of a carrier that are in the snapshot and count for
\* its average
Counted(code) ==
    {i \in 1..Len(saved) :
        /\ IndexOfId(Snapshot, saved[i].id) > 0
        /\ saved[i].carrier.code = code
        /\ saved[i].status = "delivered"
        /\ IsDefined(saved[i].transitDays)
        /\ ValueOf(saved[i].transitDays) > 0}

RECURSIVE SumDays(_, _, _)
SumDays(S, lo, hi) ==
    IF lo > hi THEN 0
    ELSE IF lo = hi
         THEN (IF lo \in S THEN ValueOf(saved[lo].transitDays) ELSE 0)
    ELSE LET mid == (lo + hi) \div 2
         IN SumDays(S, lo, mid) + SumDays(S, mid + 1, hi)

\* C16: for the Trackings stored in the repository, avgTransitDays of a
\* carrier is round(sum / count) of transitDays over exactly its Trackings
\* that are delivered with transitDays > 0, and absent when there is none;
\* for the three Trackings (A delivered 2, A delivered 4, B in_transit 0)
\* the result is A: 2, 67, 3 and B: 1, 33, absent.
C16_AvgTransitDays ==
    (aOp.op = "courier" /\ aOp.snap = storage)
        => /\ \A k \in 1..Len(aOp.out) :
                 LET S == Counted(aOp.out[k].carrierCode)
                     avg == aOp.out[k].avgTransitDays
                 IN IF S = {} THEN avg = Undefined
                    ELSE /\ IsDefined(avg)
                         /\ IsRounded(ValueOf(avg), SumDays(S, 1, Len(saved)),
                                      Cardinality(S))
           /\ (saved = TrackingsOf(CourierExample) /\ Len(Snapshot) = Len(saved))
                 => aOp.out =
                      << [carrierCode |-> "kerry", carrierName |-> "Kerry Express",
                          count |-> 2, percentage |-> 67,
                          avgTransitDays |-> Some(3)],
                         [carrierCode |-> "flash", carrierName |-> "Flash Express",
                          count |-> 1, percentage |-> 33,
                          avgTransitDays |-> Undefined] >>

\* C17: an analytics call repeated while the stored snapshot is unchanged
\* returns the same result: getCourierDistribution, getMonthlyStats with a
\* month, and getMonthlyStats without one.
C17_Idempotent ==
    (aOp.op # "none" /\ aOp.again) => aOp.out = aOp.prevOut

\* C17, amended: getMonthlyStats without a month returns the same result
\* when the two calls read the clock, after their await, in the same
\* calendar month.
C17_IdempotentWithinMonth ==
    (/\ aOp.op # "none"
     /\ aOp.again
     /\ \/ aOp.op = "courier"
        \/ IsDefined(aOp.month)
        \/ formatMonth(Date(aOp.prevAt)) = formatMonth(Date(aOp.at)))
        => aOp.out = aOp.prevOut

C17_Witness ==
    /\ aOp.op = "monthly"
    /\ aOp.again
    /\ aOp.month = Some("1970-01")
    /\ aOp.prevAt < aOp.at
    /\ aOp.out.totalPackages > 0
    /\ aOp.out = aOp.prevOut

----------------------------------------------------------------------------
(* App.handleTrack, several runs in flight.  A run waits for the gateway   *)
(* inside instantTrack; what follows the last gateway response (the save,  *)
(* loadTrackings, the state updates) awaits promises that are already      *)
(* settled and localStorage calls that are synchronous, so it runs without *)
(* any other handler in between: one step.                                 *)

MaxBatch == 2

\* how instantTrack(trackingNumber) can settle: the Tracking of the first
\* item the gateway returned, 'Tracking info not found', or the error of
\* the first query's request, which is awaited outside the try block
TrackOutcomes(id, date) ==
    { Resolved(mapToTracking(c, id, date)) : c \in RepoContents }
    \cup { Rejected(NOT_FOUND) }
    \cup { Rejected(request(Response(t, "", Undefined)).message) :
               t \in {"network_error", "http_error"} }

AllIdle == \A p \in Runs : tpc[p] = "idle"

\* err instanceof Error ? err.message : (a fixed text); whatever the
\* services throw is an Error
ErrorTextBlank(err) == ""

ErrorText(err) == err.message

\* handleTrack up to await trackingService.instantTrack(trackingNumber)
TrackBegin(p, trackingNumber) ==
    /\ tpc[p] = "idle"
    /\ isLoading' = TRUE
    /\ error' = Undefined
    /\ tpc' = [tpc EXCEPT ![p] = "resolving"]
    /\ targ' = [targ EXCEPT ![p] = trackingNumber]
    /\ tref' = [tref EXCEPT ![p] = Undefined]
    /\ UNCHANGED <<statVars, asyncVars, svcVars, currentPage, appTrackings,
                   now, nextId, normVars, resolverVars, repoVars>>

\* instantTrack resolved: saveTracking(result), loadTrackings,
\* setCurrentPage('list'), and finally setIsLoading(false)
TrackSaved(p, outcome) ==
    /\ tpc[p] = "resolving"
    /\ ~IsDefined(tref[p])
    /\ outcome.kind = "ok"
    /\ LET tracking == ValueOf(outcome.value)
           list == LocalStorage_getTrackings(storage)
       IN /\ storage' = persist(Upsert(list, tracking))
          /\ lastOp' = Op("save", FALSE,
                          IndexOfNumber(list, tracking.trackingNumber))
    /\ appTrackings' = LocalStorage_getTrackings(storage')
    /\ currentPage' = "list"
    /\ isLoading' = FALSE
    /\ tpc' = [tpc EXCEPT ![p] = "idle"]
    /\ UNCHANGED <<statVars, asyncVars, svcVars, tref, targ, error, now,
                   normVars, resolverVars>>

\* handleTrack without its finally block
TrackFailedStillLoading(p, outcome) ==
    /\ tpc[p] = "resolving"
    /\ ~IsDefined(tref[p])
    /\ outcome.kind = "error"
    /\ error' = Some(ErrorText(outcome))
    /\ tpc' = [tpc EXCEPT ![p] = "idle"]
    /\ UNCHANGED <<statVars, asyncVars, svcVars, tref, targ, currentPage,
                   appTrackings, now, nextId, normVars, resolverVars,
                   repoVars, isLoading>>

\* instantTrack rejected: setError(err.message), and finally
\* setIsLoading(false)
TrackFailed(p, outcome) ==
    /\ tpc[p] = "resolving"
    /\ ~IsDefined(tref[p])
    /\ outcome.kind = "error"
    /\ error' = Some(ErrorText(outcome))
    /\ isLoading' = FALSE
    /\ tpc' = [tpc EXCEPT ![p] = "idle"]
    /\ UNCHANGED <<statVars, asyncVars, svcVars, tref, targ, currentPage,
                   appTrackings, now, nextId, normVars, resolverVars,
                   repoVars>>

\* the same three steps, with the record of the runs that overlap; the
\* resolved Tracking took the next identifier
HandleTrackCall(p, trackingNumber) ==
    /\ AllIdle \/ Len(batch.started) < MaxBatch
    /\ TrackBegin(p, trackingNumber)
    /\ batch' = IF AllIdle
                THEN [before |-> LocalStorage_getTrackings(storage),
                      started |-> <<trackingNumber>>, saves |-> <<>>]
                ELSE [batch EXCEPT !.started = Append(@, trackingNumber)]

HandleTrackSaved(p, outcome) ==
    /\ nextId <= MaxId
    /\ TrackSaved(p, outcome)
    /\ nextId' = nextId + 1
    /\ batch' = [batch EXCEPT !.saves = Append(@, ValueOf(outcome.value))]

HandleTrackFailed(p, outcome) ==
    /\ TrackFailed(p, outcome)
    /\ UNCHANGED batch

NextTrack ==
    \/ \E p \in Runs, tn \in TrackNos : HandleTrackCall(p, tn)
    \/ \E p \in Runs : \E o \in TrackOutcomes(nextId, Date(now)) :
          HandleTrackSaved(p, o)
    \/ \E p \in Runs : \E o \in TrackOutcomes(nextId, Date(now)) :
          HandleTrackFailed(p, o)

SpecTrack == Init /\ [][NextTrack]_vars

\* two runs overlapped, asked for the same tracking number n, and each
\* saved a result for n; no run is in flight any more
TwoSavedFor(n) ==
    /\ AllIdle
    /\ batch.started = <<n, n>>
    /\ Len(batch.saves) = 2
    /\ batch.saves[1].trackingNumber = n
    /\ batch.saves[2].trackingNumber = n

\* C18: when two resolves for the same tracking number run concurrently
\* and each saves its result, the repository ends with exactly one record
\* for that number, the one written last, and every record of another
\* tracking number that was stored before is still stored.
C18_LastWriteWins ==
    \A n \in TrackNos :
        TwoSavedFor(n)
          => /\ \E i \in 1..Len(Stored) :
                   /\ Stored[i] = AsStored(batch.saves[2])
                   /\ \A j \in 1..Len(Stored) :
                         Stored[j].trackingNumber = n => j = i
             /\ \A k \in 1..Len(batch.before) :
                   batch.before[k].trackingNumber # n
                     => \E i \in 1..Len(Stored) : Stored[i] = batch.before[k]

C18_Witness ==
    /\ TwoSavedFor("TN1")
    /\ batch.saves[1].status # batch.saves[2].status
    /\ Len(batch.before) = 1
    /\ batch.before[1].trackingNumber = "TN2"
    /\ Len(Stored) = 2
    /\ Stored[2] = AsStored(batch.saves[2])

----------------------------------------------------------------------------
(* The App as its user drives it: TrackingBar submits, TrackingCard        *)
(* refresh and delete buttons, Navigation.  A handler that waits for the   *)
(* gateway leaves the event loop free, so further events are handled       *)
(* while it waits.                                                         *)

Pages == {"home", "list", "dashboard"}

\* the pages that render a TrackingBar, and the page that renders the cards
BarPages == {"home", "list"}
CardPage == "list"

\* TrackingBar.handleSubmit with a non-blank trimmed text, while the bar's
\* isLoading prop is false: handleTrack up to the await of instantTrack
Submit(p, trackingNumber) ==
    /\ currentPage \in BarPages
    /\ ~isLoading
    /\ TrackBegin(p, trackingNumber)
    /\ UNCHANGED batch

\* the records getTrackings returns after the step
StoredNext == LocalStorage_getTrackings(storage')

\* the identifiers the resolves of one session can take
MaxAppId == 3
IdLeft == nextId <= MaxAppId

\* the two ways handleTrack ends, for a session that keeps no record of
\* overlapping runs; the resolved Tracking took the next identifier
TrackDone(p, outcome) ==
    /\ IdLeft
    /\ TrackSaved(p, outcome)
    /\ Len(StoredNext) <= MaxStore
    /\ nextId' = nextId + 1
    /\ UNCHANGED batch

TrackError(p, outcome) == TrackFailed(p, outcome) /\ UNCHANGED batch

\* { ...updated, id, nickname: tracking.nickname }
RefreshedTrackingKeepAll(updated, tracking) == tracking

RefreshedTrackingKeepCreated(updated, tracking) ==
    [updated EXCEPT !.id = tracking.id, !.nickname = tracking.nickname,
                    !.createdAt = tracking.createdAt]

RefreshedTracking(updated, tracking) ==
    [updated EXCEPT !.id = tracking.id, !.nickname = tracking.nickname]

\* a card's refresh button: handleRefresh(id) up to the await of
\* instantTrack; the id of a card is always found in the state trackings
RefreshClick(p, id) ==
    /\ currentPage = CardPage
    /\ tpc[p] = "idle"
    /\ LET index == IndexOfId(appTrackings, id)
       IN /\ index > 0
          /\ tref' = [tref EXCEPT ![p] = Some(appTrackings[index])]
          /\ targ' = [targ EXCEPT ![p] = appTrackings[index].trackingNumber]
    /\ isLoading' = TRUE
    /\ tpc' = [tpc EXCEPT ![p] = "resolving"]
    /\ UNCHANGED <<statVars, asyncVars, svcVars, error, currentPage,
                   appTrackings, batch, now, nextId, normVars, resolverVars,
                   repoVars>>

\* instantTrack resolved: updateTracking({...updated, id, nickname}), which
\* throws when the id is not stored, then loadTrackings; finally
\* setIsLoading(false)
RefreshUpdated(p, outcome) ==
    /\ tpc[p] = "resolving"
    /\ IsDefined(tref[p])
    /\ outcome.kind = "ok"
    /\ LET list == LocalStorage_getTrackings(storage)
           tracking == RefreshedTracking(ValueOf(outcome.value),
                                         ValueOf(tref[p]))
           r == ReplaceById(list, tracking)
       IN /\ lastOp' = Op("update", r.threw, IndexOfId(list, tracking.id))
          /\ IF r.threw
             THEN /\ error' = Some(ErrorText(r))
                  /\ UNCHANGED <<storage, appTrackings>>
             ELSE /\ storage' = persist(r.value)
                  /\ appTrackings' = LocalStorage_getTrackings(storage')
                  /\ UNCHANGED error
    /\ isLoading' = FALSE
    /\ tpc' = [tpc EXCEPT ![p] = "idle"]
    /\ UNCHANGED <<statVars, asyncVars, svcVars, targ, tref, currentPage,
                   batch, now, normVars, resolverVars>>

\* instantTrack rejected: setError(err.message), and finally
\* setIsLoading(false); the run's local tracking is kept as it was
RefreshFailed(p, outcome) ==
    /\ tpc[p] = "resolving"
    /\ IsDefined(tref[p])
    /\ outcome.kind = "error"
    /\ error' = Some(ErrorText(outcome))
    /\ isLoading' = FALSE
    /\ tpc' = [tpc EXCEPT ![p] = "idle"]
    /\ UNCHANGED <<statVars, asyncVars, svcVars, targ, tref, currentPage,
                   appTrackings, batch, now, nextId, normVars, resolverVars,
                   repoVars>>

\* a refresh whose resolved Tracking took the next identifier
RefreshDone(p, outcome) ==
    /\ IdLeft
    /\ RefreshUpdated(p, outcome)
    /\ nextId' = nextId + 1

\* a card's delete button: handleDelete(id), that is deleteTracking(id)
\* and loadTrackings
DeleteClick(id) ==
    /\ currentPage = CardPage
    /\ IndexOfId(appTrackings, id) > 0
    /\ LET list == LocalStorage_getTrackings(storage)
       IN /\ storage' = persist(SelectSeq(list, LAMBDA t : t.id # id))
          /\ lastOp' = Op("delete", FALSE, IndexOfId(list, id))
    /\ appTrackings' = LocalStorage_getTrackings(storage')
    /\ UNCHANGED <<statVars, asyncVars, svcVars, tpc, targ, tref, isLoading,
                   error, currentPage, batch, now, nextId, normVars,
                   resolverVars>>

\* Navigation: onNavigate = setCurrentPage
Navigate(page) ==
    /\ currentPage # page
    /\ currentPage' = page
    /\ UNCHANGED <<statVars, asyncVars, svcVars, tpc, targ, tref, isLoading,
                   error, appTrackings, batch, now, nextId, normVars,
                   resolverVars, repoVars>>

\* the run a user who waits for each action to finish keeps busy
OneRun == {1}

\* one handler at a time waits for the gateway; deletes and navigation
\* happen meanwhile
NextApp ==
    \/ \E p \in OneRun, tn \in TrackNos : Submit(p, tn)
    \/ \E p \in OneRun : \E o \in TrackOutcomes(nextId, Date(now)) :
          TrackDone(p, o)
    \/ \E p \in OneRun : \E o \in TrackOutcomes(nextId, Date(now)) :
          TrackError(p, o)
    \/ \E p \in OneRun, id \in 1..MaxId : RefreshClick(p, id)
    \/ \E p \in OneRun : \E o \in TrackOutcomes(nextId, Date(now)) :
          RefreshDone(p, o)
    \/ \E p \in OneRun : \E o \in TrackOutcomes(nextId, Date(now)) :
          RefreshFailed(p, o)
    \/ \E id \in 1..MaxId : DeleteClick(id)
    \/ \E page \in Pages : Navigate(page)

SpecApp == Init /\ [][NextApp]_vars

\* the user clicks on while handlers wait for the gateway
NextOverlap ==
    \/ \E p \in Runs, tn \in TrackNos : Submit(p, tn)
    \/ \E p \in Runs : \E o \in TrackOutcomes(nextId, Date(now)) :
          TrackDone(p, o)
    \/ \E p \in Runs : \E o \in TrackOutcomes(nextId, Date(now)) :
          TrackError(p, o)
    \/ \E p \in Runs, id \in 1..MaxId : RefreshClick(p, id)
    \/ \E p \in Runs : \E o \in TrackOutcomes(nextId, Date(now)) :
          RefreshDone(p, o)
    \/ \E p \in Runs : \E o \in TrackOutcomes(nextId, Date(now)) :
          RefreshFailed(p, o)

SpecOverlap == Init /\ [][NextOverlap]_vars

\* C21: when a track action's resolve fails, the message of the failure is
\* set as the UI error, the repository is left as it was and the page does
\* not change; when it succeeds, the result is stored and the page is the
\* list.
C21_TrackOutcome ==
    [][\A p \in Runs : \A o \in TrackOutcomes(nextId, Date(now)) :
          /\ TrackFailed(p, o)
               => /\ o.message \in {NOT_FOUND, "Failed to fetch",
                                     "API request failed: 500"}
                  /\ error' = Some(o.message)
                  /\ storage' = storage
                  /\ currentPage' = currentPage
          /\ TrackSaved(p, o)
               => /\ \E i \in 1..Len(StoredNext) :
                        StoredNext[i] = AsStored(ValueOf(o.value))
                  /\ currentPage' = "list"]_vars

\* a resolve failed before anything was ever stored: only a track action
\* can have set the error
C21_Witness ==
    /\ AllIdle
    /\ lastOp.op = "none"
    /\ storage = Undefined
    /\ error = Some("Failed to fetch")
    /\ currentPage = "home"
    /\ ~isLoading

\* C23: at every moment at most one resolve (track or refresh action) is
\* in flight.
C23_OneResolveInFlight ==
    Cardinality({p \in Runs : tpc[p] = "resolving"}) <= 1

\* C25: after a successful refresh or re-track, the stored status of the
\* Tracking is the normalized status of the gateway item just reported,
\* whatever the stored status was before.
C25_AdoptsLatestStatus ==
    [][\A p \in Runs : \A c \in RepoContents :
          LET o == Resolved(mapToTracking(c, nextId, Date(now)))
              reported == mapTrack123Status(c.transitStatus)
          IN /\ (RefreshUpdated(p, o) /\ ~lastOp'.threw)
                  => LET k == IndexOfId(StoredNext, ValueOf(tref[p]).id)
                     IN k > 0 /\ StoredNext[k].status = reported
             /\ TrackSaved(p, o)
                  => LET k == IndexOfNumber(StoredNext, c.trackNo)
                     IN k > 0 /\ StoredNext[k].status = reported]_vars

\* a refresh of a delivered Tracking has stored it as in_transit
C25_Witness ==
    /\ tpc[1] = "idle"
    /\ IsDefined(tref[1])
    /\ ValueOf(tref[1]).status = "delivered"
    /\ lastOp = Op("update", FALSE, 1)
    /\ Len(Stored) = 1
    /\ Stored[1].id = ValueOf(tref[1]).id
    /\ Stored[1].status = "in_transit"

\* C27: when the resolve of a refresh returns and the id is no longer
\* stored, the stored collection is unchanged, the id stays absent and an
\* error message is surfaced; a refresh that succeeds keeps the record's id
\* and nickname and leaves every other record unchanged.
C27_RefreshAfterDelete ==
    [][\A p \in Runs : \A o \in TrackOutcomes(nextId, Date(now)) :
          RefreshUpdated(p, o)
            => LET id == ValueOf(tref[p]).id
                   k == IndexOfId(Stored, id)
               IN IF k = 0
                  THEN /\ storage' = storage
                       /\ IndexOfId(StoredNext, id) = 0
                       /\ error' = Some("Tracking not found: " \o ToString(id))
                  ELSE /\ Len(StoredNext) = Len(Stored)
                       /\ StoredNext[k].id = id
                       /\ StoredNext[k].nickname = Stored[k].nickname
                       /\ \A j \in 1..Len(Stored) :
                             j # k => StoredNext[j] = Stored[j]]_vars

\* the refreshed Tracking was deleted while the resolve was in flight, and
\* another record is still stored
C27_Witness ==
    /\ tpc[1] = "idle"
    /\ IsDefined(tref[1])
    /\ lastOp = Op("update", TRUE, 0)
    /\ IndexOfId(Stored, ValueOf(tref[1]).id) = 0
    /\ Len(Stored) = 1
    /\ error = Some("Tracking not found: 1")

----------------------------------------------------------------------------
(* One App action at a time, resolved by the service createTrackingService *)
(* built: the gateway resolver, one step per await, or the stub.  The      *)
(* handler's continuation follows the settled promise at once, so nothing  *)
(* else happens between the call of instantTrack and its first await, nor  *)
(* between the settlement and the continuation.                            *)

ApiKeys == {Undefined, Some(""), Some("secret")}

\* MockTrack123Service.instantTrack
Mock_instantTrackPending(trackingNumber, id, date) ==
    createTracking([trackingNumber |-> trackingNumber, nickname |-> Undefined,
                    carrier |-> [code |-> "mock", name |-> "Mock Express"],
                    status |-> Undefined, events |-> Some(<<>>),
                    transitDays |-> Undefined], id, date)

Mock_instantTrack(trackingNumber, id, date) ==
    createTracking([trackingNumber |-> trackingNumber, nickname |-> Undefined,
                    carrier |-> [code |-> "mock", name |-> "Mock Express"],
                    status |-> Some("in_transit"), events |-> Some(<<>>),
                    transitDays |-> Undefined], id, date)

\* the gateway's answers in a session
RunQueryResponses ==
    { Response("network_error", "", Undefined),
      Response("ok", SUCCESS, Undefined) }
    \cup { Response("ok", SUCCESS, Some(<<c>>)) : c \in RepoContents }

RunImportResponses ==
    { Response("ok", "A0400", Undefined), Response("ok", SUCCESS, Undefined) }

\* handler p is about to call trackingService.instantTrack
Calling(p) == tpc[p] = "resolving" /\ rpc = "idle"

\* a call or a continuation is due before any other event
Busy == rpc = "done" \/ \E p \in Runs : Calling(p)

\* instantTrack of Track123Service, to its first await
GatewayCall(p) ==
    /\ service = "Track123Service"
    /\ Calling(p)
    /\ InstantTrackCall(targ[p], Undefined)

\* instantTrack of MockTrack123Service: settled when it returns
MockCall(p) ==
    /\ service = "MockTrack123Service"
    /\ Calling(p)
    /\ nextId <= MaxId
    /\ rpc' = "done"
    /\ rtn' = targ[p]
    /\ rnick' = Undefined
    /\ trackings' = <<>>
    /\ calls' = <<>>
    /\ responses' = <<>>
    /\ result' = Resolved(Mock_instantTrack(targ[p], nextId, Date(now)))
    /\ nextId' = nextId + 1
    /\ UNCHANGED <<statVars, appVars, asyncVars, svcVars, now, normVars,
                   repoVars>>

\* the continuation of handleTrack on the settled promise
TrackSettled(p) ==
    /\ rpc = "done"
    /\ \/ TrackSaved(p, result) /\ UNCHANGED nextId
       \/ TrackFailed(p, result)
    /\ UNCHANGED batch

\* the continuation of handleRefresh on the settled promise
RefreshSettled(p) ==
    /\ rpc = "done"
    /\ \/ RefreshUpdated(p, result) /\ UNCHANGED nextId
       \/ RefreshFailed(p, result)

\* the identifiers the actions started in one session can take
MaxRunId == 2
RunIdLeft == nextId <= MaxRunId

InitRun ==
    /\ now = 0
    /\ nextId = 1
    /\ normIn = Undefined
    /\ normOut = "none"
    /\ rpc = "idle"
    /\ rtn = "TN1"
    /\ rnick = Undefined
    /\ trackings = <<>>
    /\ calls = <<>>
    /\ responses = <<>>
    /\ result = Pending
    /\ storage = Undefined
    /\ lastOp = [op |-> "none", threw |-> FALSE, index |-> 0]
    /\ saved = <<>>
    /\ aOp = NoCall
    /\ tpc = [p \in Runs |-> "idle"]
    /\ targ = [p \in Runs |-> "TN1"]
    /\ isLoading = FALSE
    /\ error = Undefined
    /\ currentPage = "home"
    /\ appTrackings = <<>>
    /\ batch = NoBatch
    /\ tref = [p \in Runs |-> Undefined]
    /\ pending = <<>>
    /\ wrote = NoWrite
    /\ apiKey \in ApiKeys
    /\ service = createTrackingService(apiKey)

NextRun ==
    \/ \E p \in OneRun, tn \in TrackNos :
          ~Busy /\ RunIdLeft /\ Submit(p, tn)
    \/ \E p \in OneRun, id \in 1..MaxId :
          ~Busy /\ RunIdLeft /\ RefreshClick(p, id)
    \/ \E p \in OneRun : GatewayCall(p)
    \/ \E p \in OneRun : MockCall(p)
    \/ \E resp \in RunQueryResponses : FirstQuery(resp)
    \/ \E resp \in RunImportResponses : Register(resp)
    \/ Wait
    \/ \E resp \in RunQueryResponses : SecondQuery(resp)
    \/ \E p \in OneRun : TrackSettled(p)
    \/ \E p \in OneRun : RefreshSettled(p)
    \/ AllIdle /\ InstantTrackDone
    \/ ~Busy /\ Tick

SpecRun == InitRun /\ [][NextRun]_vars

\* every gateway call returns or fails, the 500 ms timer fires, and a
\* continuation on a settled promise runs
SpecRunFair ==
    /\ SpecRun
    /\ WF_vars(\E p \in OneRun : GatewayCall(p) \/ MockCall(p))
    /\ WF_vars(\E resp \in RunQueryResponses : FirstQuery(resp))
    /\ WF_vars(\E resp \in RunImportResponses : Register(resp))
    /\ WF_vars(Wait)
    /\ WF_vars(\E resp \in RunQueryResponses : SecondQuery(resp))
    /\ WF_vars(\E p \in OneRun : TrackSettled(p) \/ RefreshSettled(p))

HasCredential == IsDefined(apiKey) /\ ValueOf(apiKey) # ""

\* C22: without an API credential the resolver is the stub, which for
\* every tracking number returns a Tracking with that number, carrier code
\* 'mock', status in_transit and no events, makes no gateway call and never
\* fails; with a credential the gateway resolver is used, which settles
\* only after a gateway call.
C22_StubWithoutCredential ==
    /\ HasCredential <=> service = "Track123Service"
    /\ ~HasCredential <=> service = "MockTrack123Service"
    /\ (~HasCredential /\ rpc # "idle")
         => /\ rpc = "done"
            /\ calls = <<>>
            /\ result.kind = "ok"
            /\ ValueOf(result.value).trackingNumber = rtn
            /\ \E p \in OneRun : rtn = targ[p]
            /\ ValueOf(result.value).carrier.code = "mock"
            /\ ValueOf(result.value).status = "in_transit"
            /\ ValueOf(result.value).events = <<>>
    /\ ~HasCredential => error = Undefined
    /\ (HasCredential /\ rpc = "done") => CountOf("query") >= 1

\* no credential: the stub has just answered a refresh of 'TN2'
C22_Witness ==
    /\ apiKey = Undefined
    /\ rpc = "done"
    /\ rtn = "TN2"
    /\ tpc[1] = "resolving"
    /\ IsDefined(tref[1])
    /\ result.kind = "ok"
    /\ ValueOf(result.value).carrier.code = "mock"

\* C26: every started track or refresh action completes, after at most two
\* queries and one registration, and the step that completes it sets the
\* loading flag to false whether the resolve returned or failed.
C26_Terminates ==
    /\ [](CountOf("query") <= 2 /\ CountOf("register") <= 1)
    /\ [][\A p \in OneRun :
             (tpc[p] = "resolving" /\ tpc'[p] = "idle")
                => (rpc = "done" /\ ~isLoading')]_vars
    /\ \A p \in OneRun :
          (tpc[p] = "resolving") ~> (tpc[p] = "idle" /\ ~isLoading)

\* a track action has ended with an error after two queries and one
\* registration
C26_Witness ==
    /\ rpc = "done"
    /\ AllIdle
    /\ ~isLoading
    /\ calls = <<"query", "register", "wait", "query">>
    /\ result.kind = "error"
    /\ error = Some(NOT_FOUND)

\* the month the repository's records of createdAt falls in, counted by
\* getMonthlyStats
CountIn(list, date) ==
    getMonthlyStats(list, Some(formatMonth(date)), Date(now)).totalPackages

\* C28: a re-track or a refresh of a stored tracking number stores the time
\* of the new resolve as createdAt (a re-track also stores a new id), so
\* getMonthlyStats counts the package in the month of that resolve and, when
\* the months differ, no longer in the month it was counted in before.
C28_CreatedAtOverwritten ==
    [][\A p \in OneRun :
          (rpc = "done" /\ result.kind = "ok")
            => LET t == ValueOf(result.value)
                   retrack == IndexOfNumber(Stored, t.trackingNumber)
                   refresh == IF IsDefined(tref[p])
                              THEN IndexOfId(Stored, ValueOf(tref[p]).id)
                              ELSE 0
                   k == IF TrackSaved(p, result) THEN retrack ELSE refresh
                   before == Stored[k].createdAt
               IN ((TrackSaved(p, result) \/ RefreshUpdated(p, result))
                      /\ k > 0)
                    => /\ StoredNext[k].createdAt = Date(now)
                       /\ TrackSaved(p, result)
                            => /\ StoredNext[k].id = t.id
                               /\ StoredNext[k].id # Stored[k].id
                       /\ CountIn(StoredNext, Date(now)) >= 1
                       /\ formatMonth(before) # formatMonth(Date(now))
                            => /\ CountIn(StoredNext, Date(now))
                                    = CountIn(Stored, Date(now)) + 1
                               /\ CountIn(StoredNext, before)
                                    = CountIn(Stored, before) - 1]_vars

\* a Tracking created in January 1970 was refreshed in February: it is
\* counted in February and January counts nothing
C28_Witness ==
    /\ AllIdle
    /\ IsDefined(tref[1])
    /\ ValueOf(tref[1]).createdAt = Date(0)
    /\ lastOp = Op("update", FALSE, 1)
    /\ Len(Stored) = 1
    /\ Stored[1].id = ValueOf(tref[1]).id
    /\ Stored[1].createdAt = Date(1)
    /\ getMonthlyStats(Stored, Some("1970-01"), Date(now)).totalPackages = 0
    /\ getMonthlyStats(Stored, Some("1970-02"), Date(now)).totalPackages = 1

----------------------------------------------------------------------------
(* The repository under callers that hold one Tracking per tracking number *)

\* the callers hold one identifier per tracking number
HeldId(trackNo) == IF trackNo = "TN1" THEN 1 ELSE 2

RepoCalls ==
    { RepoCallOf("save", Some(t), t.id) :
         t \in { mapToTracking(Content(n, ProfileFull), HeldId(n), Date(now)) :
                    n \in TrackNos } }
    \cup { RepoCallOf("update", Some(t), t.id) :
              t \in { mapToTracking(Content("TN1", ProfileBare), HeldId("TN1"),
                                    Date(now)) } }
    \cup { RepoCallOf("delete", Undefined, HeldId(n)) : n \in TrackNos }

NextAsync ==
    \/ \E call \in RepoCalls : RepoCall(call)
    \/ RepoResume

SpecAsync == Init /\ [][NextAsync]_vars

\* the call that wrote last did not touch the record r of its own read
Untouched(r) ==
    IF wrote.op = "save"
    THEN ValueOf(wrote.number) # r.trackingNumber
    ELSE wrote.id # r.id

\* C24: when the write of an operation B landed between the read and the
\* write of an operation A, B's change is absent after A's write: a record
\* B saved for a tracking number that A's read did not hold and A does not
\* store is not stored, and a record of A's read that B deleted and A does
\* not touch is stored again.
C24_WriteBetweenIsLost ==
    (wrote.op # "none" /\ ~wrote.threw)
      => /\ \A n \in wrote.gained :
               wrote.number # Some(n) => n \notin NumbersOf(Stored)
         /\ \A r \in wrote.lost :
               Untouched(r) => r \in KeysOf(Stored)

\* saveTracking for 'TN2' and saveTracking for 'TN1' were called on an
\* empty store without waiting; after both wrote, only 'TN1' is stored
C24_Witness ==
    /\ wrote.op = "save"
    /\ ~wrote.threw
    /\ wrote.number = Some("TN1")
    /\ wrote.gained = {"TN2"}
    /\ wrote.lost = {}
    /\ Len(Stored) = 1
    /\ Stored[1].trackingNumber = "TN1"

====
